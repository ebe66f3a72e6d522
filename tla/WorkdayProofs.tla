---------------------------- MODULE WorkdayProofs ----------------------------
(***************************************************************************)
(* Proofs about one day, for every schedule, window of night, set of       *)
(* moments, cover and adjustment. What the reports say is a function of    *)
(* the state, so most of it follows from the types alone; that the stored  *)
(* summary agrees with it needs to remember when the summary was made. The *)
(* total of a report is the sum over its days, by induction on their       *)
(* number.                                                                 *)
(***************************************************************************)
EXTENDS Reports, FiniteSetTheorems, WellFoundedInduction, TLAPS

LEMMA Constants ==
    /\ Hour \in Nat \ {0} /\ DayLength \in Nat \ {0}
    /\ NightStart \in InDay /\ NightEnd \in InDay
    /\ LateTolerance \in Nat
    /\ Null \notin Int /\ InDay \subseteq Nat
    /\ Moments \subseteq Int /\ Plans \subseteq Plan /\ Covers \subseteq Cover
    /\ \A a \in Adjusted : a[1] \in Types /\ a[2] \in InDay
BY CalculatorAssumption, WorkdayAssumption DEF DayLength, InDay

LEMMA NonNegNat == ASSUME NEW x \in Int PROVE NonNeg(x) \in Nat
BY DEF NonNeg

LEMMA InstantNat == ASSUME NEW t \in Instant, t # Null PROVE t \in Nat
BY Constants DEF Instant

LEMMA PlanParts ==
    ASSUME NEW p \in Plan
    PROVE  /\ p.schedule \in Schedule
           /\ PaidHoliday(p) \in BOOLEAN /\ p.employed \in BOOLEAN
           /\ p.holiday \in Holiday /\ p.next \in Holiday
           /\ p.west \in BOOLEAN /\ ReadHoliday(p) \in Holiday
           /\ p.schedule.entry \in Instant /\ p.schedule.exit \in Instant
           /\ p.schedule.lunch \in Nat
           /\ p.schedule.custom \in Nat \cup {Null}
           /\ p.schedule.works \in BOOLEAN
<1>1. /\ p.schedule \in Schedule /\ PaidHoliday(p) \in BOOLEAN
      /\ p.employed \in BOOLEAN /\ p.west \in BOOLEAN
      /\ p.holiday \in Holiday /\ p.next \in Holiday
      /\ ReadHoliday(p) \in Holiday
  BY DEF Plan, PaidHoliday, ReadHoliday
<1>2. QED
  BY <1>1 DEF Schedule

LEMMA CoverParts ==
    ASSUME NEW c \in Cover
    PROVE  /\ c.absent \in Nat /\ c.start \in Instant
           /\ c.full \in BOOLEAN /\ c.external \in BOOLEAN
BY DEF Cover

LEMMA MarkingParts ==
    ASSUME NEW m \in Markings
    PROVE  /\ m["entry"] \in Instant /\ m["exit"] \in Instant
           /\ m["lunch_start"] \in Instant /\ m["lunch_end"] \in Instant
BY DEF Markings, Types

-----------------------------------------------------------------------------
(***************************************************************************)
(* The numbers of a day are natural numbers.                               *)
(***************************************************************************)
LEMMA OutInstant ==
    ASSUME NEW m \in Markings, NEW c \in Cover
    PROVE  Out(m, c) \in Instant
BY MarkingParts, CoverParts DEF Out, JustifiedExit, Instant

LEMMA LunchNat ==
    ASSUME NEW m \in Markings, m["lunch_start"] # Null, m["lunch_end"] # Null
    PROVE  LunchTaken(m) \in Nat
<1>1. m["lunch_start"] \in Nat /\ m["lunch_end"] \in Nat
  BY MarkingParts, InstantNat
<1>2. m["lunch_end"] - m["lunch_start"] \in Int
  BY <1>1
<1>3. QED
  BY <1>2, NonNegNat DEF LunchTaken

LEMMA CalculatedNat ==
    ASSUME NEW m \in Markings, NEW c \in Cover
    PROVE  CalculatedWork(m, c) \in Nat
<1>1. CASE m["entry"] = Null \/ Out(m, c) = Null
  BY <1>1 DEF CalculatedWork
<1>2. CASE m["entry"] # Null /\ Out(m, c) # Null
  <2> DEFINE lunch == IF {"lunch_start", "lunch_end"} \subseteq Marked(m)
                      THEN LunchTaken(m) ELSE 0
  <2>1. lunch \in Nat
    BY LunchNat DEF Marked
  <2>2. Out(m, c) \in Nat /\ m["entry"] \in Nat
    BY <1>2, OutInstant, MarkingParts, InstantNat
  <2>3. NonNeg(Out(m, c) - m["entry"] - lunch) \in Nat
    BY <2>1, <2>2, NonNegNat
  <2>4. QED
    BY <1>2, <2>3 DEF CalculatedWork
<1>3. QED
  BY <1>1, <1>2

LEMMA ReportOutInt ==
    ASSUME NEW m \in Markings, NEW c \in Cover, NEW at \in Int,
           m["entry"] # Null
    PROVE  ReportOut(m, c, at) \in Int
BY OutInstant, MarkingParts, InstantNat DEF ReportOut

LEMMA ReportLunchNat ==
    ASSUME NEW m \in Markings, NEW c \in Cover, NEW at \in Int, NEW p \in Plan
    PROVE  ReportLunch(m, p.schedule, c, at) \in Nat
<1>1. p.schedule.lunch \in Nat
  BY PlanParts
<1>2. m["lunch_start"] # Null => NonNeg(at - m["lunch_start"]) \in Nat
  <2>1. m["lunch_start"] # Null => m["lunch_start"] \in Nat
    BY MarkingParts, InstantNat
  <2>2. QED
    BY <2>1, NonNegNat
<1>3. m["lunch_start"] # Null /\ m["lunch_end"] # Null => LunchTaken(m) \in Nat
  BY LunchNat
<1>4. QED
  BY <1>1, <1>2, <1>3 DEF ReportLunch

LEMMA ReportedNat ==
    ASSUME NEW m \in Markings, NEW c \in Cover, NEW at \in Int, NEW p \in Plan
    PROVE  ReportedWork(m, p.schedule, c, at) \in Nat
<1>1. CASE m["entry"] = Null
  BY <1>1 DEF ReportedWork
<1>2. CASE m["entry"] # Null
  <2>1. m["entry"] \in Int
    BY <1>2, MarkingParts, InstantNat
  <2>2. NonNeg(ReportOut(m, c, at) - m["entry"]
               - ReportLunch(m, p.schedule, c, at)) \in Nat
    BY <1>2, <2>1, ReportOutInt, ReportLunchNat, NonNegNat
  <2>3. QED
    BY <1>2, <2>2 DEF ReportedWork
<1>3. QED
  BY <1>1, <1>2

LEMMA WorkloadNat ==
    ASSUME NEW p \in Plan
    PROVE  /\ Workload(p.schedule) \in Nat
           /\ ReportWorkload(p.schedule) \in Nat
<1> DEFINE s == p.schedule
<1>1. CASE s.entry = Null \/ s.exit = Null
  BY <1>1 DEF Workload, ReportWorkload
<1>2. CASE s.entry # Null /\ s.exit # Null
  <2>1. s.entry \in Nat /\ s.exit \in Nat /\ s.lunch \in Nat
    BY <1>2, PlanParts, InstantNat
  <2>2. LeavesAt(s) \in Nat
    BY <2>1, Constants DEF LeavesAt
  <2>3. /\ NonNeg(s.exit - s.entry - s.lunch) \in Nat
        /\ NonNeg(LeavesAt(s) - s.entry - s.lunch) \in Nat
    BY <2>1, <2>2, NonNegNat
  <2>4. QED
    BY <1>2, <2>3 DEF Workload, ReportWorkload
<1>3. QED
  BY <1>1, <1>2

LEMMA ExpectedNat ==
    ASSUME NEW p \in Plan, NEW c \in Cover
    PROVE  /\ SummaryExpected(p, c) \in Nat
           /\ ReportExpected(p, c) \in Nat
<1>1. SummaryExpected(p, c) \in Nat
  BY WorkloadNat DEF SummaryExpected
<1>2. ReportExpected(p, c) \in Nat
  BY WorkloadNat, PlanParts DEF ReportExpected
<1>3. QED
  BY <1>1, <1>2

LEMMA LateNat ==
    ASSUME NEW p \in Plan, NEW m \in Markings, NEW c \in Cover
    PROVE  /\ Late(p.schedule, m["entry"]) \in Nat
           /\ ReportLate(m, p, c) \in Nat
<1>1. Late(p.schedule, m["entry"]) \in Nat
  <2> DEFINE s == p.schedule
  <2>1. CASE s.entry = Null \/ m["entry"] = Null
    BY <2>1 DEF Late
  <2>2. CASE s.entry # Null /\ m["entry"] # Null
    <3>1. s.entry \in Nat /\ m["entry"] \in Nat
      BY <2>2, PlanParts, MarkingParts, InstantNat
    <3>2. NonNeg(m["entry"] - s.entry - LateTolerance) \in Nat
      BY <3>1, Constants, NonNegNat
    <3>3. QED
      BY <2>2, <3>2 DEF Late
  <2>3. QED
    BY <2>1, <2>2
<1>2. QED
  BY <1>1 DEF ReportLate

LEMMA NightNat ==
    ASSUME NEW m \in Markings
    PROVE  NightBetween(m["entry"], m["exit"]) \in Nat
<1> DEFINE from == m["entry"]
           to == m["exit"]
<1>1. CASE from = Null \/ to = Null
  BY <1>1 DEF NightBetween
<1>2. CASE from # Null /\ to # Null
  <2>1. from \in Nat /\ to \in Nat
    BY <1>2, MarkingParts, InstantNat
  <2>2. /\ Least(to, NightEnd + DayLength) \in Int
        /\ Greatest(from, NightStart) \in Int
    BY <2>1, Constants DEF Least, Greatest
  <2>3. QED
    BY <1>2, <2>2, NonNegNat DEF NightBetween
<1>3. QED
  BY <1>1, <1>2


\* What is left to be required of a day is no more than was due, and the
\* credit fills at most what was not worked.
LEMMA CreditBounds ==
    ASSUME NEW required \in Nat, NEW worked \in Nat, NEW absent \in Nat
    PROVE  /\ RequiredAfterCredit(required, worked, absent) \in Nat
           /\ RequiredAfterCredit(required, worked, absent) <= required
           /\ worked - RequiredAfterCredit(required, worked, absent) <=
                NonNeg(worked - required)
           /\ required <= worked =>
                RequiredAfterCredit(required, worked, absent) = required
BY DEF RequiredAfterCredit, Credited, NonNeg, Least

LEMMA SummaryNumbers ==
    ASSUME NEW m \in Markings, NEW p \in Plan, NEW c \in Cover, NEW at \in Int
    PROVE  /\ SummaryWorked(m, p, c, at) \in Nat
           /\ SummaryDue(m, p, c, at) \in Nat
           /\ SummaryRequired(m, p, c, at) \in Nat
<1>1. SummaryExpected(p, c) \in Nat /\ CalculatedWork(m, c) \in Nat
  BY ExpectedNat, CalculatedNat
<1>2. SummaryWorked(m, p, c, at) \in Nat
  BY <1>1 DEF SummaryWorked, Greatest
<1>3. SummaryDue(m, p, c, at) \in Nat
  BY <1>1, <1>2 DEF SummaryDue, Least
<1>4. SummaryRequired(m, p, c, at) \in Nat
  BY <1>2, <1>3, CoverParts, CreditBounds DEF SummaryRequired
<1>5. QED
  BY <1>2, <1>3, <1>4

LEMMA CountedMarkings ==
    ASSUME NEW m \in Markings, NEW p \in Plan
    PROVE  Counted(m, p) \in Markings
BY DEF Counted, NoMarkings, Markings, Instant

LEMMA SyncIsRow ==
    ASSUME NEW all \in Markings, NEW p \in Plan, NEW c \in Cover,
           NEW at \in Int
    PROVE  SyncDailySummary(all, p, c, at) \in SummaryRow
<1> DEFINE m == Counted(all, p)
<1>1. m \in Markings
  BY CountedMarkings
<1>2. /\ SummaryWorked(m, p, c, at) \in Nat
      /\ SummaryRequired(m, p, c, at) \in Nat
  BY <1>1, SummaryNumbers
<1>3. SummaryWorked(m, p, c, at) - SummaryRequired(m, p, c, at) \in Int
  BY <1>2
<1>4. Late(p.schedule, m["entry"]) \in Nat
  BY <1>1, LateNat
<1>5. (IF Complete(m) THEN NightBetween(m["entry"], m["exit"]) ELSE 0) \in Nat
  BY <1>1, NightNat
<1>6. (Complete(m) \/ (c.external /\ ~Future(at))) \in BOOLEAN
  BY CoverParts DEF Complete, Future
<1>7. QED
  BY <1>2, <1>3, <1>4, <1>5, <1>6 DEF SyncDailySummary, SummaryRow

-----------------------------------------------------------------------------
(***************************************************************************)
(* Types.                                                                  *)
(***************************************************************************)
LEMMA RefreshTypes ==
    ASSUME TypeOK, Refresh, marks' \in Markings, cover' \in Cover,
           rejected' \in SUBSET Types
    PROVE  TypeOK'
<1>1. summary' \in SummaryRow
  BY SyncIsRow DEF Refresh, TypeOK
<1>2. QED
  BY <1>1 DEF Refresh, TypeOK

LEMMA InitTypes == Init => TypeOK
<1> SUFFICES ASSUME Init PROVE TypeOK
  OBVIOUS
<1>1. now \in Int /\ plan \in Plan
  BY Constants DEF Init
<1>2. marks \in Markings
  BY DEF Init, NoMarkings, Markings, Instant
<1>3. cover \in Cover
  BY DEF Init, NoCover, Cover, Instant
<1>4. QED
  BY <1>1, <1>2, <1>3 DEF Init, TypeOK

LEMMA StepTypes == TypeOK /\ [Next]_vars => TypeOK'
<1> SUFFICES ASSUME TypeOK, [Next]_vars PROVE TypeOK'
  OBVIOUS
<1> USE DEF TypeOK
<1>1. CASE Tick
  BY <1>1, Constants DEF Tick
<1>2. ASSUME NEW t \in Types, Mark(t) PROVE TypeOK'
  <2>1. now \in InDay
    BY <1>2, Constants DEF Mark, IsToday, Future, Over, InDay
  <2>2. marks' \in Markings
    BY <1>2, <2>1 DEF Mark, Markings, Instant
  <2>3. QED
    BY <1>2, <2>2, RefreshTypes DEF Mark
<1>3. ASSUME NEW t \in Types, Reject(t) PROVE TypeOK'
  <2>1. marks' \in Markings
    BY <1>3 DEF Reject, Markings, Instant
  <2>2. QED
    BY <1>3, <2>1, RefreshTypes DEF Reject
<1>4. ASSUME NEW a \in Adjusted, Adjust(a[1], a[2]) PROVE TypeOK'
  <2>1. marks' \in Markings
    BY <1>4, Constants DEF Adjust, Markings, Instant
  <2>2. QED
    BY <1>4, <2>1, RefreshTypes DEF Adjust
<1>5. ASSUME NEW c \in Covers, Decide(c) PROVE TypeOK'
  BY <1>5, Constants, RefreshTypes DEF Decide
<1>6. CASE UNCHANGED vars
  BY <1>6 DEF vars
<1>7. QED
  BY <1>1, <1>2, <1>3, <1>4, <1>5, <1>6 DEF Next

\* Every number of the day keeps its type: no time worked, due or at night is
\* ever negative, whatever is marked, rejected, adjusted or decided.
THEOREM WorkdayTypeCorrect == Spec => []TypeOK
<1>1. QED
  BY InitTypes, StepTypes, PTL DEF Spec

-----------------------------------------------------------------------------
(***************************************************************************)
(* What the reports say.                                                   *)
(***************************************************************************)
LEMMA ReportNumbers ==
    ASSUME NEW m \in Markings, NEW p \in Plan, NEW c \in Cover, NEW at \in Int
    PROVE  /\ ReportFinalWork(m, p, c, at) \in Nat
           /\ ReportDue(m, p, c, at) \in Nat
<1>1. /\ ReportedWork(m, p.schedule, c, at) \in Nat
      /\ ReportExpected(p, c) \in Nat
      /\ ReportLate(m, p, c) \in Nat
  BY ReportedNat, ExpectedNat, LateNat
<1>2. QED
  BY <1>1 DEF ReportFinalWork, ReportDue, Greatest, Least

\* The credit of a day as the time bank applies it.
LEMMA BankCredit ==
    ASSUME NEW m \in Markings, NEW p \in Plan, NEW c \in Cover,
           NEW at \in Int, p.employed
    PROVE  LET b == TimeBank(m, p, c, at)
               w == ReportFinalWork(m, p, c, at)
               d == ReportDue(m, p, c, at)
           IN  /\ b.worked = w /\ b.required <= d
               /\ b.balance = w - b.required
               /\ b.required = RequiredAfterCredit(d, w, c.absent)
               /\ b.required \in Nat /\ w \in Nat /\ d \in Nat
               /\ b.balance <= NonNeg(w - d)
<1> DEFINE w == ReportFinalWork(m, p, c, at)
           d == ReportDue(m, p, c, at)
           r == RequiredAfterCredit(d, w, c.absent)
           b == TimeBank(m, p, c, at)
<1>1. b.worked = w /\ b.required = r /\ b.balance = w - r
  BY DEF TimeBank, BankRow
<1>2. w \in Nat /\ d \in Nat /\ c.absent \in Nat
  BY ReportNumbers, CoverParts
<1>3. r \in Nat /\ r <= d /\ w - r <= NonNeg(w - d)
  BY <1>2, CreditBounds
<1>4. QED
  BY <1>1, <1>2, <1>3

LEMMA DueAhead == TypeOK => NothingDueAhead
<1> SUFFICES ASSUME TypeOK, IsToday(now), ~Complete(marks), ~cover.external
             PROVE  Bank.balance >= -ReportLate(marks, plan, cover)
  BY DEF NothingDueAhead
<1> DEFINE late == ReportLate(marks, plan, cover)
           w == ReportedWork(marks, plan.schedule, cover, now)
<1>1. late \in Nat /\ w \in Nat /\ ReportExpected(plan, cover) \in Nat
  BY LateNat, ReportedNat, ExpectedNat DEF TypeOK
<1>2. CASE ~plan.employed
  <2>1. Bank.balance = 0
    BY <1>2 DEF Bank, TimeBank, EmptyRow
  <2>2. QED
    BY <1>1, <2>1
<1>3. CASE plan.employed
  <2>1. ReportFinalWork(marks, plan, cover, now) = w
    BY DEF ReportFinalWork
  <2>2. ReportDue(marks, plan, cover, now) <= w + late
    BY <1>1 DEF ReportDue, IsToday, Least
  <2>3. /\ Bank.required \in Nat
        /\ Bank.required <= ReportDue(marks, plan, cover, now)
        /\ ReportDue(marks, plan, cover, now) \in Nat
        /\ Bank.balance = w - Bank.required
    BY <1>3, <2>1, BankCredit DEF TypeOK, Bank
  <2>4. QED
    BY <1>1, <2>2, <2>3
<1>4. QED
  BY <1>2, <1>3

LEMMA CreditIsNoOvertime == TypeOK => NoOvertimeByCredit
<1> SUFFICES ASSUME TypeOK, plan.employed
             PROVE  Bank.balance <=
                      NonNeg(Bank.worked - ReportDue(marks, plan, cover, now))
  BY DEF NoOvertimeByCredit
<1>1. QED
  BY BankCredit DEF TypeOK, Bank

\* The daily sheet of a day is its row of the time bank.
LEMMA SheetIsBank ==
    ASSUME NEW m \in Markings, NEW p \in Plan, NEW c \in Cover, NEW at \in Int
    PROVE  DailySheet(m, p, c, at) = TimeBank(m, p, c, at)
<1> DEFINE e == ReportExpected(p, c)
           w == ReportFinalWork(m, p, c, at)
<1>1. e \in Nat /\ w \in Nat
  BY ExpectedNat, ReportNumbers
<1>2. c.external \in BOOLEAN
  BY CoverParts
<1>3. CASE ~p.employed
  BY <1>3 DEF DailySheet, TimeBank
<1>4. CASE p.employed /\ Marked(m) = {}
  <2>1. m["entry"] = Null /\ ~Complete(m)
    BY <1>4 DEF Marked, Types, Complete
  <2>2. ReportedWork(m, p.schedule, c, at) = 0
    BY <2>1 DEF ReportedWork
  <2>3. ReportLate(m, p, c) = 0
    <3>1. Late(p.schedule, m["entry"]) = 0
      BY <2>1 DEF Late
    <3>2. QED
      BY <3>1 DEF ReportLate
  <2>4. SheetWork(m, p, c, at) = w
    BY <1>1, <1>4, <2>2 DEF SheetWork, ReportFinalWork, Greatest
  <2>5. ReportDue(m, p, c, at) = EmptySheetDue(p, c, at)
    <3>1. Least(0 + 0, e) = 0
      BY <1>1 DEF Least
    <3>2. ReportDue(m, p, c, at) =
            IF Future(at) THEN 0
            ELSE IF IsToday(at) /\ ~c.external THEN 0 ELSE e
      BY <2>1, <2>2, <2>3, <3>1 DEF ReportDue
    <3>3. Over(at) => ~Future(at)
      BY <1>2, Constants DEF Over, Future
    <3>4. QED
      BY <1>2, <3>2, <3>3 DEF EmptySheetDue, IsToday
  <2>6. QED
    BY <1>4, <2>4, <2>5 DEF DailySheet, TimeBank
<1>5. CASE p.employed /\ Marked(m) # {}
  <2>1. SheetWork(m, p, c, at) = w
    BY <1>5 DEF SheetWork
  <2>2. SheetDue(m, p, c, at) = ReportDue(m, p, c, at)
    BY <1>2 DEF SheetDue, ReportDue, IsToday
  <2>3. QED
    BY <1>5, <2>1, <2>2 DEF DailySheet, TimeBank
<1>6. QED
  BY <1>3, <1>4, <1>5

LEMMA SheetAgrees == TypeOK => SheetMatchesBank
BY SheetIsBank DEF TypeOK, SheetMatchesBank, Bank

LEMMA NightIsCountedOnce == TypeOK => NightCounted
<1> DEFINE from == marks["entry"]
           to == marks["exit"]
<1> SUFFICES ASSUME TypeOK, NightEnd <= NightStart, plan.employed,
                    Complete(marks), from >= NightEnd
             PROVE  ReportNight(marks, plan) =
                      Cardinality({t \in from..(to - 1) : InNight(t)})
  BY DEF NightCounted
<1> DEFINE first == Greatest(from, NightStart)
<1>1. from # Null /\ to # Null
  BY DEF Complete, Marked
<1>2. from \in InDay /\ to \in InDay
  BY <1>1, MarkingParts DEF TypeOK, Instant
<1>3. /\ from \in Nat /\ to \in Nat /\ to < DayLength /\ DayLength \in Nat
      /\ NightStart \in Nat /\ NightEnd \in Nat
  BY <1>2, Constants DEF InDay
<1>4. first \in Nat
  BY <1>3 DEF Greatest
<1>5. {t \in from..(to - 1) : InNight(t)} = first..(to - 1)
  BY <1>3 DEF InNight, Greatest
<1>6. Cardinality(first..(to - 1)) = NonNeg(to - first)
  <2>1. first \in Int /\ to - 1 \in Int
    BY <1>3, <1>4
  <2>2. Cardinality(first..(to - 1)) =
          IF first > to - 1 THEN 0 ELSE (to - 1) - first + 1
    BY <2>1, FS_Interval
  <2>3. QED
    BY <1>3, <1>4, <2>2 DEF NonNeg
<1>7. NightBetween(from, to) = NonNeg(to - first)
  <2>1. Least(to, NightEnd + DayLength) = to
    BY <1>3 DEF Least
  <2>2. QED
    BY <1>1, <2>1 DEF NightBetween
<1>8. QED
  BY <1>5, <1>6, <1>7 DEF ReportNight

\* The time bank and the daily sheet never show different numbers.
THEOREM SheetAlwaysMatchesBank == Spec => []SheetMatchesBank
<1>1. QED
  BY WorkdayTypeCorrect, SheetAgrees, PTL

\* Before the exit of the day nothing but the delay of the entry is debited.
THEOREM NothingIsDueAhead == Spec => []NothingDueAhead
<1>1. QED
  BY WorkdayTypeCorrect, DueAhead, PTL

\* However many declarations are approved, and however they overlap the work,
\* none of them turns into overtime.
THEOREM DeclarationsAreNoOvertime == Spec => []NoOvertimeByCredit
<1>1. QED
  BY WorkdayTypeCorrect, CreditIsNoOvertime, PTL

\* The arithmetic of the night window is exact for every entry after dawn.
THEOREM NightIsExact == Spec => []NightCounted
<1>1. QED
  BY WorkdayTypeCorrect, NightIsCountedOnce, PTL

-----------------------------------------------------------------------------
(***************************************************************************)
(* A settled day stands.                                                   *)
(***************************************************************************)
\* Two instants after a day's journey ended give the same work.
LEMMA WorkSettles ==
    ASSUME NEW m \in Markings, NEW p \in Plan, NEW c \in Cover,
           NEW at \in Int, NEW later \in Int, at < later, ~InProgress(m, at)
    PROVE  ReportedWork(m, p.schedule, c, later) =
             ReportedWork(m, p.schedule, c, at)
<1>1. CASE m["entry"] = Null
  BY <1>1 DEF ReportedWork
<1>2. CASE m["entry"] # Null
  <2>1. m["entry"] \in Nat
    BY <1>2, MarkingParts, InstantNat
  <2>2. ~InProgress(m, later)
    BY <1>2, <2>1, Constants DEF InProgress
  <2>3. ReportOut(m, c, later) = ReportOut(m, c, at)
    BY <2>2 DEF ReportOut
  <2>4. ReportLunch(m, p.schedule, c, later) = ReportLunch(m, p.schedule, c, at)
    BY <2>2, <2>3 DEF ReportLunch
  <2>5. QED
    BY <2>3, <2>4 DEF ReportedWork
<1>3. QED
  BY <1>1, <1>2

LEMMA TickSettled ==
    ASSUME TypeOK, Settled, Tick
    PROVE  Bank' = Bank
<1>1. /\ now \in Int /\ now' \in Int /\ now < now'
      /\ marks' = marks /\ plan' = plan /\ cover' = cover
      /\ marks \in Markings /\ plan \in Plan /\ cover \in Cover
  BY Constants DEF TypeOK, Tick
<1>2. ReportedWork(marks, plan.schedule, cover, now') =
        ReportedWork(marks, plan.schedule, cover, now)
  <2>1. ~InProgress(marks, now)
    <3>1. marks["entry"] # Null => marks["entry"] \in Nat
      BY <1>1, MarkingParts, InstantNat
    <3>2. QED
      BY <1>1, <3>1, Constants DEF Settled, InProgress
  <2>2. QED
    BY <1>1, <2>1, WorkSettles
<1>3. /\ Over(now) /\ Over(now') /\ ~Future(now) /\ ~Future(now')
      /\ ~IsToday(now) /\ ~IsToday(now')
  BY <1>1, Constants DEF Settled, Over, Future, IsToday
<1>4. ReportFinalWork(marks, plan, cover, now') =
        ReportFinalWork(marks, plan, cover, now)
  BY <1>2, <1>3 DEF ReportFinalWork
<1>5. ReportDue(marks, plan, cover, now') = ReportDue(marks, plan, cover, now)
  BY <1>3 DEF ReportDue
<1>6. TimeBank(marks, plan, cover, now') = TimeBank(marks, plan, cover, now)
  BY <1>4, <1>5 DEF TimeBank
<1>7. Bank' = TimeBank(marks', plan', cover', now')
  BY DEF Bank
<1>8. QED
  BY <1>1, <1>6, <1>7 DEF Bank

\* The balance of a day that is over, 16 hours after its entry, changes only by
\* a handler, never by time.
THEOREM SettledDaysStand == Spec => SettledDayStands
<1>1. TypeOK => [Settled /\ Tick => Bank' = Bank]_vars
  BY TickSettled
<1>2. QED
  BY <1>1, WorkdayTypeCorrect, PTL DEF SettledDayStands

-----------------------------------------------------------------------------
(***************************************************************************)
(* The stored summary agrees with the reports. It was made at some moment  *)
(* at or after every marking that it counts.                               *)
(***************************************************************************)
MadeAt(at) ==
    /\ at <= now
    /\ \A t \in Marked(marks) : marks[t] <= at
    /\ summary = SyncDailySummary(marks, plan, cover, at)

SummaryDated == summary # Null => \E at \in Int : MadeAt(at)

MarksPast == \A t \in Marked(marks) : marks[t] <= now

Dated == TypeOK /\ MarksPast /\ SummaryDated

LEMMA RefreshDates ==
    ASSUME TypeOK, Refresh, TypeOK', \A t \in Marked(marks') : marks'[t] <= now
    PROVE  Dated'
<1>1. now' = now /\ now \in Int /\ plan' = plan
  BY DEF Refresh, TypeOK
<1>2. MarksPast'
  BY <1>1 DEF MarksPast
<1>3. summary' = SyncDailySummary(marks', plan', cover', now')
  BY <1>1 DEF Refresh
<1>4. MadeAt(now)'
  BY <1>1, <1>2, <1>3 DEF MadeAt, MarksPast
<1>5. SummaryDated'
  BY <1>1, <1>4 DEF SummaryDated
<1>6. QED
  BY <1>2, <1>5 DEF Dated

LEMMA InitDated == Init => Dated
<1> SUFFICES ASSUME Init PROVE Dated
  OBVIOUS
<1>1. Marked(marks) = {} /\ summary = Null
  BY DEF Init, NoMarkings, Marked
<1>2. QED
  BY <1>1, InitTypes DEF Dated, MarksPast, SummaryDated

LEMMA StepDated == Dated /\ [Next]_vars => Dated'
<1> SUFFICES ASSUME Dated, [Next]_vars PROVE Dated'
  OBVIOUS
<1>1. TypeOK /\ TypeOK' /\ MarksPast /\ now \in Int
  BY StepTypes DEF Dated, TypeOK
<1>2. \A t \in Marked(marks) : marks[t] \in Nat /\ marks[t] <= now
  BY <1>1, InstantNat DEF MarksPast, Marked, TypeOK, Markings
<1>3. CASE Tick
  <2>1. /\ now' \in Int /\ now < now'
        /\ UNCHANGED <<marks, plan, cover, summary>>
    BY <1>3, Constants DEF Tick
  <2>2. MarksPast'
    BY <1>1, <1>2, <2>1 DEF MarksPast, Marked
  <2>3. SummaryDated'
    <3>1. CASE summary = Null
      BY <2>1, <3>1 DEF SummaryDated
    <3>2. CASE summary # Null
      <4>1. PICK at \in Int : MadeAt(at)
        BY <3>2 DEF Dated, SummaryDated
      <4>2. at <= now'
        BY <1>1, <2>1, <4>1 DEF MadeAt
      <4>3. MadeAt(at)'
        BY <2>1, <4>1, <4>2 DEF MadeAt, Marked
      <4>4. QED
        BY <4>3 DEF SummaryDated
    <3>3. QED
      BY <3>1, <3>2
  <2>4. QED
    BY <1>1, <2>2, <2>3 DEF Dated
<1>4. ASSUME NEW t \in Types, Mark(t) PROVE Dated'
  <2>1. marks' = [marks EXCEPT ![t] = now] /\ Refresh
    BY <1>4 DEF Mark
  <2>2. \A u \in Marked(marks') : marks'[u] <= now
    BY <1>1, <1>2, <2>1 DEF Marked, TypeOK, Markings
  <2>3. QED
    BY <1>1, <2>1, <2>2, RefreshDates
<1>5. ASSUME NEW t \in Types, Reject(t) PROVE Dated'
  <2>1. marks' = [marks EXCEPT ![t] = Null] /\ Refresh
    BY <1>5 DEF Reject
  <2>2. \A u \in Marked(marks') : marks'[u] <= now
    BY <1>1, <1>2, <2>1 DEF Marked, TypeOK, Markings
  <2>3. QED
    BY <1>1, <2>1, <2>2, RefreshDates
<1>6. ASSUME NEW a \in Adjusted, Adjust(a[1], a[2]) PROVE Dated'
  <2>1. /\ marks' = [marks EXCEPT ![a[1]] = a[2]] /\ Refresh
        /\ a[2] <= now
    BY <1>6 DEF Adjust
  <2>2. \A u \in Marked(marks') : marks'[u] <= now
    BY <1>1, <1>2, <2>1 DEF Marked, TypeOK, Markings
  <2>3. QED
    BY <1>1, <2>1, <2>2, RefreshDates
<1>7. ASSUME NEW c \in Covers, Decide(c) PROVE Dated'
  <2>1. marks' = marks /\ Refresh
    BY <1>7 DEF Decide
  <2>2. QED
    BY <1>1, <1>2, <2>1, RefreshDates
<1>8. CASE UNCHANGED vars
  <2>1. UNCHANGED <<now, marks, plan, cover, summary>>
    BY <1>8 DEF vars
  <2>2. MarksPast' /\ SummaryDated'
    BY <2>1 DEF Dated, MarksPast, SummaryDated, MadeAt, Marked
  <2>3. QED
    BY <1>1, <2>2 DEF Dated
<1>9. QED
  BY <1>3, <1>4, <1>5, <1>6, <1>7, <1>8 DEF Next

\* On a plain schedule the calculator and the reports expect the same work of
\* a day that both take for a paid holiday or neither does.
LEMMA ExpectedAgrees ==
    ASSUME TypeOK, PlainSchedule, plan.employed, PaidAlike
    PROVE  SummaryExpected(plan, cover) = ReportExpected(plan, cover)
<1> DEFINE s == plan.schedule
<1>1. Workload(s) = ReportWorkload(s)
  <2>1. CASE s.entry = Null \/ s.exit = Null
    BY <2>1 DEF Workload, ReportWorkload
  <2>2. CASE s.entry # Null /\ s.exit # Null
    <3>1. s.entry \in Nat /\ s.exit \in Nat
      BY <2>2, PlanParts, InstantNat DEF TypeOK
    <3>2. s.entry <= s.exit
      BY <2>2 DEF PlainSchedule
    <3>3. LeavesAt(s) = s.exit
      BY <3>1, <3>2 DEF LeavesAt
    <3>4. QED
      BY <3>3 DEF Workload, ReportWorkload
  <2>3. QED
    BY <2>1, <2>2
<1>2. Workload(s) \in Nat
  BY WorkloadNat DEF TypeOK
<1>3. s.custom = Null
  BY DEF PlainSchedule
<1>4. QED
  BY <1>1, <1>2, <1>3
  DEF SummaryExpected, RequiresWorkday, ReportExpected, PaidAlike

\* ... and count the same work on a closed day, whenever they are asked.
LEMMA WorkAgrees ==
    ASSUME TypeOK, ClosedDay, NEW at \in Int
    PROVE  CalculatedWork(marks, cover) =
             ReportedWork(marks, plan.schedule, cover, at)
<1> DEFINE from == marks["entry"]
           to == marks["exit"]
           both == {"lunch_start", "lunch_end"} \subseteq Marked(marks)
<1>1. from # Null /\ to # Null
  BY DEF ClosedDay, Complete, Marked
<1>2. from \in Nat /\ to \in Nat
  BY <1>1, MarkingParts, InstantNat DEF TypeOK
<1>3. Out(marks, cover) = to /\ ReportOut(marks, cover, at) = to
  BY <1>1 DEF Out, ReportOut
<1>4. CASE both
  <2>1. ReportLunch(marks, plan.schedule, cover, at) = LunchTaken(marks)
    BY <1>4 DEF ReportLunch, Marked
  <2>2. QED
    BY <1>1, <1>3, <1>4, <2>1 DEF CalculatedWork, ReportedWork
<1>5. CASE ~both
  <2>1. marks["lunch_start"] = Null /\ to - from <= 6 * Hour
    BY <1>5 DEF ClosedDay
  <2>2. ~(to - from > 6 * Hour)
    BY <1>2, <2>1, Constants
  <2>3. ReportLunch(marks, plan.schedule, cover, at) = 0
    BY <1>3, <2>1, <2>2 DEF ReportLunch
  <2>4. QED
    BY <1>1, <1>3, <1>5, <2>3 DEF CalculatedWork, ReportedWork
<1>6. QED
  BY <1>4, <1>5

LEMMA DatedAgrees == Dated => SummaryMatchesBank
<1> SUFFICES ASSUME Dated, summary # Null, plan.employed, PlainSchedule,
                    ClosedDay
             PROVE  /\ summary.night = ReportNight(marks, plan)
                    /\ PaidAlike \/ ~cover.external =>
                         summary.worked = Bank.worked
                    /\ PaidAlike => /\ summary.required = Bank.required
                                    /\ summary.balance = Bank.balance
  BY DEF SummaryMatchesBank
<1>1. PICK at \in Int : MadeAt(at)
  BY DEF Dated, SummaryDated
<1>2. /\ TypeOK /\ now \in Int
      /\ marks \in Markings /\ plan \in Plan /\ cover \in Cover
  BY DEF Dated, TypeOK
<1>3. ~Future(at) /\ ~Future(now)
  <2>1. "entry" \in Marked(marks)
    BY DEF ClosedDay, Complete
  <2>2. marks["entry"] \in Nat
    BY <1>2, <2>1, MarkingParts, InstantNat DEF Marked
  <2>3. marks["entry"] <= at /\ at <= now
    BY <1>1, <2>1 DEF MadeAt
  <2>4. QED
    BY <1>2, <2>2, <2>3 DEF Future
<1> DEFINE e == ReportExpected(plan, cover)
           w == ReportFinalWork(marks, plan, cover, now)
<1>4. e \in Nat /\ w \in Nat /\ cover.absent \in Nat
  BY <1>2, ExpectedNat, ReportNumbers, CoverParts
<1>5. PaidAlike => SummaryExpected(plan, cover) = e
  BY <1>2, ExpectedAgrees
<1>6. PaidAlike \/ ~cover.external =>
        SummaryWorked(marks, plan, cover, at) = w
  BY <1>2, <1>3, <1>5, WorkAgrees DEF SummaryWorked, ReportFinalWork
<1>7. /\ PaidAlike => SummaryDue(marks, plan, cover, at) = e
      /\ ReportDue(marks, plan, cover, now) = e
  BY <1>3, <1>5 DEF SummaryDue, ReportDue, ClosedDay
<1>8. PaidAlike => SummaryRequired(marks, plan, cover, at) =
                     RequiredAfterCredit(e, w, cover.absent)
  <2>1. CASE cover.full
    <3>1. e = 0
      BY <2>1 DEF ReportExpected
    <3>2. RequiredAfterCredit(e, w, cover.absent) = 0
      BY <1>4, <3>1, CreditBounds
    <3>3. QED
      BY <1>7, <2>1, <3>1, <3>2 DEF SummaryRequired
  <2>2. CASE ~cover.full
    BY <1>6, <1>7, <2>2 DEF SummaryRequired
  <2>3. QED
    BY <2>1, <2>2
<1>9. /\ Bank.worked = w
      /\ Bank.required = RequiredAfterCredit(e, w, cover.absent)
      /\ Bank.balance = w - RequiredAfterCredit(e, w, cover.absent)
  BY <1>7 DEF Bank, TimeBank, BankRow
<1>10. summary = SyncDailySummary(marks, plan, cover, at)
  BY <1>1 DEF MadeAt
<1>11. Counted(marks, plan) = marks
  BY DEF Counted
<1>12. QED
  BY <1>6, <1>8, <1>9, <1>10, <1>11 DEF SyncDailySummary, ReportNight

\* Whatever handler stored the summary of a closed day, before, on or after
\* the day, it agrees with what the reports compute of it at any later time:
\* its night always, work and debit as far as both see the same holiday.
THEOREM SummaryAlwaysMatchesBank == Spec => []SummaryMatchesBank
<1>1. Spec => []Dated
  BY InitDated, StepDated, PTL DEF Spec
<1>2. QED
  BY <1>1, DatedAgrees, PTL

-----------------------------------------------------------------------------
(***************************************************************************)
(* The totals of a period. A recursive function over the days satisfies    *)
(* its equation because, for every n, a function on the first n days does: *)
(* the least n without one would have one made from that of n - 1.         *)
(***************************************************************************)
LEMMA Induction ==
    ASSUME NEW S \in SUBSET Nat, 0 \in S, \A n \in S : n + 1 \in S
    PROVE  \A n \in Nat : n \in S
<1> DEFINE T == Nat \ S
           R == OpToRel(<, Nat)
<1>1. SUFFICES ASSUME T # {} PROVE FALSE
  OBVIOUS
<1>2. IsWellFoundedOn(R, Nat)
  BY NatLessThanWellFounded
<1>3. \A x, y \in Nat : x < y => <<x, y>> \in R
  BY DEF OpToRel
<1> HIDE DEF R
<1>4. PICK n \in T : \A m \in T : <<m, n>> \notin R
  BY <1>1, <1>2, WFMin
<1>5. n \in Nat \ {0} /\ n - 1 \in Nat /\ n - 1 < n
  OBVIOUS
<1>6. n - 1 \in S
  BY <1>3, <1>4, <1>5
<1>7. QED
  BY <1>4, <1>5, <1>6

TotalsOf(total, row) ==
    total = [n \in Nat |-> IF n = 0 THEN EmptyMetrics
                           ELSE Plus(total[n - 1], row[n])]

TotalsTo(N, g, row) ==
    g = [n \in 0..N |-> IF n = 0 THEN EmptyMetrics
                        ELSE Plus(g[n - 1], row[n])]

LEMMA TotalsUnique ==
    ASSUME NEW row, NEW N \in Nat, NEW M \in Nat, NEW g, NEW h,
           TotalsTo(N, g, row), TotalsTo(M, h, row)
    PROVE  \A n \in Nat : n <= N /\ n <= M => g[n] = h[n]
<1> DEFINE S == {n \in Nat : n <= N /\ n <= M => g[n] = h[n]}
<1>1. 0 \in S
  BY DEF TotalsTo
<1>2. ASSUME NEW n \in S PROVE n + 1 \in S
  <2>1. SUFFICES ASSUME n + 1 <= N, n + 1 <= M PROVE g[n + 1] = h[n + 1]
    OBVIOUS
  <2>2. g[n] = h[n] /\ n + 1 \in 0..N /\ n + 1 \in 0..M /\ n + 1 # 0
    BY <1>2, <2>1
  <2>3. /\ g[n + 1] = Plus(g[(n + 1) - 1], row[n + 1])
        /\ h[n + 1] = Plus(h[(n + 1) - 1], row[n + 1])
    BY <2>2 DEF TotalsTo
  <2>4. (n + 1) - 1 = n
    BY <1>2
  <2>5. QED
    BY <2>2, <2>3, <2>4
<1> HIDE DEF S
<1>3. \A n \in Nat : n \in S
  <2>1. S \in SUBSET Nat
    BY DEF S
  <2>2. QED
    BY <1>1, <1>2, <2>1, Induction
<1>4. QED
  BY <1>3 DEF S

LEMMA TotalsToEach ==
    ASSUME NEW row
    PROVE  \A n \in Nat : \E g : TotalsTo(n, g, row)
<1> DEFINE S == {n \in Nat : \E g : TotalsTo(n, g, row)}
<1>1. 0 \in S
  <2> DEFINE g == [n \in 0..0 |-> EmptyMetrics]
  <2>1. g = [n \in 0..0 |-> IF n = 0 THEN EmptyMetrics
                            ELSE Plus(g[n - 1], row[n])]
    OBVIOUS
  <2>2. TotalsTo(0, g, row)
    BY <2>1 DEF TotalsTo
  <2>3. QED
    BY <2>2
<1>2. ASSUME NEW N \in S PROVE N + 1 \in S
  <2>1. PICK g : TotalsTo(N, g, row)
    BY <1>2
  <2> DEFINE h == [n \in 0..(N + 1) |->
                     IF n = 0 THEN EmptyMetrics ELSE Plus(g[n - 1], row[n])]
  <2>2. \A n \in 0..N : h[n] = g[n]
    BY <1>2, <2>1 DEF TotalsTo
  <2>3. \A n \in 0..(N + 1) : n # 0 => n - 1 \in 0..N
    BY <1>2
  <2>4. h = [n \in 0..(N + 1) |-> IF n = 0 THEN EmptyMetrics
                                  ELSE Plus(h[n - 1], row[n])]
    BY <2>2, <2>3
  <2>5. TotalsTo(N + 1, h, row)
    BY <2>4 DEF TotalsTo
  <2>6. QED
    BY <1>2, <2>5
<1> HIDE DEF S
<1>3. \A n \in Nat : n \in S
  <2>1. S \in SUBSET Nat
    BY DEF S
  <2>2. QED
    BY <1>1, <1>2, <2>1, Induction
<1>4. QED
  BY <1>3 DEF S

LEMMA TotalsExist ==
    ASSUME NEW row
    PROVE  \E total : TotalsOf(total, row)
<1> DEFINE to(n) == CHOOSE g : TotalsTo(n, g, row)
           total == [n \in Nat |-> to(n)[n]]
<1>1. \A n \in Nat : TotalsTo(n, to(n), row)
  BY TotalsToEach
<1> HIDE DEF to
<1>2. ASSUME NEW n \in Nat
      PROVE  total[n] = IF n = 0 THEN EmptyMetrics
                        ELSE Plus(total[n - 1], row[n])
  <2>1. to(n)[n] = IF n = 0 THEN EmptyMetrics ELSE Plus(to(n)[n - 1], row[n])
    <3>1. n \in 0..n
      OBVIOUS
    <3>2. TotalsTo(n, to(n), row)
      BY <1>1
    <3>3. QED
      BY <3>1, <3>2 DEF TotalsTo
  <2>2. ASSUME n # 0 PROVE to(n)[n - 1] = to(n - 1)[n - 1]
    <3>1. n - 1 \in Nat /\ n - 1 <= n
      BY <2>2
    <3>2. TotalsTo(n, to(n), row) /\ TotalsTo(n - 1, to(n - 1), row)
      BY <1>1, <3>1
    <3>3. QED
      BY <3>1, <3>2, TotalsUnique
  <2>3. n # 0 => n - 1 \in Nat
    OBVIOUS
  <2>4. QED
    BY <2>1, <2>2, <2>3
<1>3. total = [n \in Nat |-> IF n = 0 THEN EmptyMetrics
                             ELSE Plus(total[n - 1], row[n])]
  BY <1>2
<1>4. QED
  BY <1>3 DEF TotalsOf

\* What Totals computes.
LEMMA TotalsStep ==
    ASSUME NEW period, period.first \in Int, NEW hire, NEW at
    PROVE  LET total == Totals(period, hire, at) IN
           /\ total[0] = EmptyMetrics
           /\ \A n \in Nat : total[n + 1] =
                Plus(total[n], RowOf(period, period.first + n, hire, at))
<1> DEFINE row == [n \in Nat |-> RowOf(period, period.first + n - 1, hire, at)]
           Eq(t) == t = [n \in Nat |->
             IF n = 0 THEN EmptyMetrics
             ELSE Plus(t[n - 1],
                       RowOf(period, period.first + n - 1, hire, at))]
<1>1. PICK t : TotalsOf(t, row)
  BY TotalsExist
<1>2. Eq(t)
  BY <1>1 DEF TotalsOf
<1>3. Totals(period, hire, at) = CHOOSE total : Eq(total)
  BY DEF Totals
<1>4. Eq(Totals(period, hire, at))
  BY <1>2, <1>3
<1> HIDE DEF Eq
<1> DEFINE total == Totals(period, hire, at)
<1> HIDE DEF total
<1>5. Eq(total)
  BY <1>4 DEF total
<1>6. \A n \in Nat :
        total[n] = IF n = 0 THEN EmptyMetrics
                   ELSE Plus(total[n - 1],
                             RowOf(period, period.first + n - 1, hire, at))
  BY <1>5 DEF Eq
<1>7. ASSUME NEW n \in Nat
      PROVE  total[n + 1] =
               Plus(total[n], RowOf(period, period.first + n, hire, at))
  <2>1. n + 1 \in Nat /\ n + 1 # 0 /\ (n + 1) - 1 = n
        /\ period.first + (n + 1) - 1 = period.first + n
    OBVIOUS
  <2>2. QED
    BY <1>6, <2>1
<1>8. total[0] = EmptyMetrics
  BY <1>6
<1>9. QED
  BY <1>7, <1>8 DEF total

-----------------------------------------------------------------------------
(***************************************************************************)
(* The rows of a period are numbers; those of the days to come owe nothing *)
(* and count nothing as worked.                                            *)
(***************************************************************************)
MetricNames ==
    {"worked", "required", "expected", "balance", "overtime", "deficit",
     "late", "night", "onHoliday", "complete", "partial", "absent",
     "justified"}

Metric == [MetricNames -> Int]

DayRow == [marks : Markings, recorded : BOOLEAN, plan : Plan, cover : Cover]

LEMMA NothingMarked ==
    /\ NoMarkings \in Markings /\ Marked(NoMarkings) = {}
    /\ NoCover \in Cover
BY DEF NoMarkings, Markings, Instant, Marked, NoCover, Cover

LEMMA DayOfType ==
    ASSUME TypeOK, NEW d \in Int, NEW hire
    PROVE  DayOf(d, hire) \in DayRow
<1>1. CASE d = 0
  BY <1>1 DEF DayOf, DayRow, TypeOK
<1>2. CASE d # 0
  <2>1. [plan EXCEPT !.holiday = StoredOn(d), !.next = StoredOn(d + 1),
                     !.employed = Employed(d, hire)] \in Plan
    <3>1. Employed(d, hire) \in BOOLEAN
      BY DEF Employed
    <3>2. StoredOn(d) \in Holiday /\ StoredOn(d + 1) \in Holiday
      BY PlanParts DEF TypeOK, StoredOn, Holiday
    <3>3. QED
      BY <3>1, <3>2 DEF TypeOK, Plan
  <2>2. QED
    BY <1>2, <2>1, NothingMarked DEF DayOf, DayRow
<1>3. QED
  BY <1>1, <1>2

\* ... and so is what a report reads of it.
LEMMA ContextType ==
    ASSUME TypeOK, NEW period, NEW d \in Int, NEW hire
    PROVE  /\ Context(period, d, hire) \in DayRow
           /\ Context(period, d, hire).marks = DayOf(d, hire).marks
           /\ Context(period, d, hire).recorded = DayOf(d, hire).recorded
<1> DEFINE day == DayOf(d, hire)
           days == period.first..period.last
<1>1. day \in DayRow
  BY DayOfType
<1> HIDE DEF day
<1>2. \A h, n \in Holiday :
        [day.plan EXCEPT !.holiday = h, !.next = n] \in Plan
  BY <1>1 DEF DayRow, Plan
<1>3. PICK h, n \in Holiday, c \in Cover :
        Context(period, d, hire) =
          [day EXCEPT !.plan = [day.plan EXCEPT !.holiday = h, !.next = n],
                      !.cover = c]
  <2>1. /\ day.plan.holiday \in Holiday /\ day.plan.next \in Holiday
        /\ day.cover \in Cover /\ NoCover \in Cover /\ "none" \in Holiday
    BY <1>1, PlanParts, NothingMarked DEF DayRow, Holiday
  <2> DEFINE h == IF d \in days THEN day.plan.holiday ELSE "none"
             n == IF d + 1 \in days THEN day.plan.next ELSE "none"
             c == IF d \in days THEN day.cover ELSE NoCover
  <2>2. h \in Holiday /\ n \in Holiday /\ c \in Cover
    BY <2>1
  <2>3. Context(period, d, hire) =
          [day EXCEPT !.plan = [day.plan EXCEPT !.holiday = h, !.next = n],
                      !.cover = c]
    BY <1>1 DEF Context, day, DayRow, Plan
  <2>4. QED
    BY <2>2, <2>3
<1>4. QED
  BY <1>1, <1>2, <1>3 DEF DayRow, day

LEMMA DayParts ==
    ASSUME NEW day \in DayRow
    PROVE  /\ day.marks \in Markings /\ day.plan \in Plan
           /\ day.cover \in Cover /\ day.recorded \in BOOLEAN
BY DEF DayRow

LEMMA BankNumbers ==
    ASSUME NEW m \in Markings, NEW p \in Plan, NEW c \in Cover, NEW at \in Int
    PROVE  LET b == TimeBank(m, p, c, at) IN
           /\ b.worked \in Nat /\ b.required \in Nat /\ b.expected \in Nat
           /\ b.balance \in Int
<1>1. CASE p.employed
  <2>1. ReportExpected(p, c) \in Nat
    BY ExpectedNat
  <2>2. TimeBank(m, p, c, at).expected = ReportExpected(p, c)
    BY <1>1 DEF TimeBank, BankRow
  <2>3. QED
    BY <1>1, <2>1, <2>2, BankCredit
<1>2. CASE ~p.employed
  BY <1>2 DEF TimeBank, EmptyRow
<1>3. QED
  BY <1>1, <1>2, PlanParts

LEMMA OneNumber == \A b : One(b) \in {0, 1}
BY DEF One

LEMMA BalanceType ==
    ASSUME NEW day \in DayRow, NEW at \in Int
    PROVE  DailyBalance(day, at) \in Metric
<1> DEFINE r == DailyBalance(day, at)
           b == TimeBank(day.marks, day.plan, day.cover, at)
<1>1. /\ b.worked \in Int /\ b.required \in Int /\ b.expected \in Int
      /\ b.balance \in Int
  BY DayParts, BankNumbers
<1>2. NonNeg(b.balance) \in Int /\ NonNeg(-b.balance) \in Int
  BY <1>1, NonNegNat
<1>3. (IF day.plan.employed THEN ReportLate(day.marks, day.plan, day.cover)
                            ELSE 0) \in Int
  BY DayParts, LateNat
<1>4. ReportNight(day.marks, day.plan) \in Int
  BY DayParts, NightNat DEF ReportNight
<1>5. (IF ReadHoliday(day.plan) = "none" THEN 0 ELSE b.worked) \in Int
  BY <1>1
<1>6. \A x : One(x) \in Int
  BY OneNumber
<1> HIDE DEF b
<1>7. \A f \in MetricNames : DailyBalance(day, at)[f] \in Int
  BY <1>1, <1>2, <1>3, <1>4, <1>5, <1>6 DEF DailyBalance, MetricNames, b
<1>8. DailyBalance(day, at) = [f \in MetricNames |-> DailyBalance(day, at)[f]]
  BY DEF DailyBalance, MetricNames
<1>9. QED
  BY <1>7, <1>8 DEF Metric

LEMMA RowType ==
    ASSUME TypeOK, NEW period, NEW d \in Int, NEW hire, NEW at \in Int
    PROVE  RowOf(period, d, hire, at) \in Metric
<1>1. On(d, at) \in Int
  BY Constants DEF On
<1>2. QED
  BY <1>1, ContextType, BalanceType DEF RowOf

LEMMA PlusType ==
    ASSUME NEW total \in Metric, NEW row \in Metric
    PROVE  /\ Plus(total, row) \in Metric
           /\ \A f \in MetricNames : Plus(total, row)[f] = total[f] + row[f]
BY DEF Plus, Metric

LEMMA TotalsType ==
    ASSUME TypeOK, NEW period, period.first \in Int, NEW hire,
           NEW at \in Int
    PROVE  \A n \in Nat : Totals(period, hire, at)[n] \in Metric
<1> DEFINE total == Totals(period, hire, at)
           S == {n \in Nat : total[n] \in Metric}
<1> HIDE DEF total
<1>1. 0 \in S
  <2>1. total[0] = EmptyMetrics
    BY TotalsStep DEF total
  <2>2. EmptyMetrics \in Metric
    BY DEF EmptyMetrics, Metric, MetricNames
  <2>3. QED
    BY <2>1, <2>2
<1>2. ASSUME NEW n \in S PROVE n + 1 \in S
  <2>1. total[n + 1] =
          Plus(total[n], RowOf(period, period.first + n, hire, at))
    BY TotalsStep DEF total
  <2>2. RowOf(period, period.first + n, hire, at) \in Metric
    BY RowType
  <2>3. QED
    BY <2>1, <2>2, PlusType
<1> HIDE DEF S
<1>3. \A n \in Nat : n \in S
  <2>1. S \in SUBSET Nat
    BY DEF S
  <2>2. QED
    BY <1>1, <1>2, <2>1, Induction
<1>4. QED
  BY <1>3 DEF S, total

\* The day an instant falls on.
LEMMA TodayBounds ==
    ASSUME NEW at \in Int
    PROVE  /\ Today(at) \in Int
           /\ DayLength * Today(at) <= at
           /\ at < DayLength * (Today(at) + 1)
           /\ Today(at) = 0 <=> IsToday(at)
           /\ Today(at) < 0 <=> Future(at)
<1>1. DayLength \in Nat \ {0}
  BY Constants
<1>2. /\ Today(at) \in Int
      /\ DayLength * Today(at) <= at
      /\ at < DayLength * (Today(at) + 1)
  BY <1>1 DEF Today
<1>3. \A q \in Int : q >= 1 => DayLength * q >= DayLength
  BY <1>1
<1>4. \A q \in Int : q <= -1 => DayLength * (q + 1) <= 0
  BY <1>1
<1>5. Today(at) = 0 => DayLength * Today(at) = 0
                       /\ DayLength * (Today(at) + 1) = DayLength
  BY <1>1
<1>6. QED
  BY <1>1, <1>2, <1>3, <1>4, <1>5 DEF IsToday, Future, Over

\* A later day than today lies ahead.
LEMMA LaterIsAhead ==
    ASSUME NEW at \in Int, NEW d \in Int, Today(at) < d
    PROVE  On(d, at) \in Int /\ Future(On(d, at))
<1>1. DayLength \in Nat \ {0} /\ Today(at) \in Int
      /\ at < DayLength * (Today(at) + 1)
  BY Constants, TodayBounds
<1>2. DayLength * (Today(at) + 1) <= DayLength * d
  <2>1. \A a, b \in Int : a <= b => DayLength * a <= DayLength * b
    BY <1>1
  <2>2. QED
    BY <1>1, <2>1
<1>3. DayLength * d \in Int /\ d * DayLength = DayLength * d
      /\ DayLength * (Today(at) + 1) \in Int
  BY <1>1
<1>4. QED
  BY <1>1, <1>2, <1>3 DEF On, Future

\* Nothing was marked or rejected before the day began.
Begun == rejected # {} => 0 <= now

LEMMA InitBegun == Init => Begun
BY DEF Init, Begun

LEMMA StepBegun == Dated /\ Begun /\ [Next]_vars => Begun'
<1> SUFFICES ASSUME Dated, Begun, [Next]_vars PROVE Begun'
  OBVIOUS
<1>1. TypeOK /\ MarksPast /\ now \in Int
  BY DEF Dated, TypeOK
<1>2. CASE Tick
  <2>1. now' \in Int /\ now < now' /\ rejected' = rejected
    BY <1>2, Constants DEF Tick
  <2>2. QED
    BY <1>1, <2>1 DEF Begun
<1>3. ASSUME NEW t \in Types, Mark(t) PROVE Begun'
  BY <1>3 DEF Mark, Refresh, Begun
<1>4. ASSUME NEW t \in Types, Reject(t) PROVE Begun'
  <2>1. t \in Marked(marks) /\ now' = now
    BY <1>4 DEF Reject, Marked, Refresh
  <2>2. marks[t] \in Nat /\ marks[t] <= now
    BY <1>1, <2>1, InstantNat DEF MarksPast, Marked, TypeOK, Markings
  <2>3. QED
    BY <1>1, <2>1, <2>2 DEF Begun
<1>5. ASSUME NEW a \in Adjusted, Adjust(a[1], a[2]) PROVE Begun'
  BY <1>5 DEF Adjust, Refresh, Begun
<1>6. ASSUME NEW c \in Covers, Decide(c) PROVE Begun'
  BY <1>6 DEF Decide, Refresh, Begun
<1>7. CASE UNCHANGED vars
  BY <1>7 DEF vars, Begun
<1>8. QED
  BY <1>2, <1>3, <1>4, <1>5, <1>6, <1>7 DEF Next

\* What a period counts whichever of its days are still to come.
Counts == MetricNames \ {"expected", "justified"}

\* A day ahead counts nothing: nobody works or owes in advance.
LEMMA AheadCountsNothing ==
    ASSUME Dated, Begun, NEW period, NEW d \in Int, NEW hire, Today(now) < d
    PROVE  \A f \in Counts : RowOf(period, d, hire, now)[f] = 0
<1> DEFINE day == Context(period, d, hire)
           at == On(d, now)
           b == TimeBank(day.marks, day.plan, day.cover, at)
<1>1. TypeOK /\ MarksPast /\ now \in Int
  BY DEF Dated, TypeOK
<1>2. at \in Int /\ Future(at)
  BY <1>1, LaterIsAhead
<1>3. /\ day \in DayRow /\ day.marks = DayOf(d, hire).marks
      /\ day.recorded = DayOf(d, hire).recorded
  BY <1>1, ContextType
<1> HIDE DEF day
<1>4. Marked(day.marks) = {} /\ day.recorded = FALSE
  <2>1. CASE d = 0
    <3>1. now < 0
      BY <1>1, <2>1, TodayBounds DEF Future
    <3>2. Marked(marks) = {}
      <4>1. ASSUME NEW t \in Marked(marks) PROVE FALSE
        <5>1. marks[t] \in Nat /\ marks[t] <= now
          BY <1>1, <4>1, InstantNat DEF MarksPast, Marked, TypeOK, Markings
        <5>2. QED
          BY <1>1, <3>1, <5>1
      <4>2. QED
        BY <4>1
    <3>3. rejected = {}
      BY <1>1, <3>1 DEF Begun
    <3>4. QED
      BY <1>3, <2>1, <3>2, <3>3 DEF DayOf
  <2>2. CASE d # 0
    BY <1>3, <2>2, NothingMarked DEF DayOf
  <2>3. QED
    BY <2>1, <2>2
<1>5. day.marks["entry"] = Null /\ ~Complete(day.marks)
  BY <1>3, <1>4 DEF Marked, Complete, Types
<1> HIDE DEF at
<1>6. ReportedWork(day.marks, day.plan.schedule, day.cover, at) = 0
  BY <1>5 DEF ReportedWork
<1>7. /\ ReportFinalWork(day.marks, day.plan, day.cover, at) = 0
      /\ ReportDue(day.marks, day.plan, day.cover, at) = 0
  BY <1>2, <1>6 DEF ReportFinalWork, ReportDue
<1>8. RequiredAfterCredit(0, 0, day.cover.absent) = 0
  <2>1. day.cover.absent \in Nat
    BY <1>3, DayParts, CoverParts
  <2>2. QED
    BY <2>1 DEF RequiredAfterCredit, Credited, NonNeg, Least
<1>9. b.worked = 0 /\ b.required = 0 /\ b.balance = 0
  BY <1>7, <1>8 DEF TimeBank, BankRow, EmptyRow
<1>10. Late(day.plan.schedule, day.marks["entry"]) = 0
  BY <1>5 DEF Late
<1>11. ReportLate(day.marks, day.plan, day.cover) = 0
  BY <1>10 DEF ReportLate
<1>12. ReportNight(day.marks, day.plan) = 0
  BY <1>5 DEF ReportNight
<1>13. ~Outside(day, at) /\ ~AbsentOn(day, b.required)
  BY <1>2, <1>9 DEF Outside, AbsentOn
<1>14. NonNeg(b.balance) = 0 /\ NonNeg(-b.balance) = 0
  <2>1. \A x \in Int : 0 <= x /\ x <= 0 => NonNeg(x) = 0 /\ NonNeg(-x) = 0
    BY DEF NonNeg
  <2>2. b.balance \in Int /\ 0 <= b.balance /\ b.balance <= 0
    BY <1>9
  <2> HIDE DEF b
  <2>3. QED
    BY <2>1, <2>2
<1> HIDE DEF b
<1>15. \A f \in Counts : DailyBalance(day, at)[f] = 0
  <2>1. /\ One(day.plan.employed
               /\ (Complete(day.marks) \/ Outside(day, at))) = 0
        /\ One(day.plan.employed /\ day.recorded
               /\ ~(Complete(day.marks) \/ Outside(day, at))) = 0
        /\ One(day.plan.employed /\ AbsentOn(day, b.required)) = 0
    BY <1>4, <1>5, <1>13 DEF One
  <2>2. DailyBalance(day, at).worked = 0
    BY <1>9 DEF DailyBalance, b
  <2>3. DailyBalance(day, at).required = 0
    BY <1>9 DEF DailyBalance, b
  <2>4. DailyBalance(day, at).balance = 0
    BY <1>9 DEF DailyBalance, b
  <2>5. /\ DailyBalance(day, at).overtime = 0
        /\ DailyBalance(day, at).deficit = 0
    BY <1>14 DEF DailyBalance, b
  <2>6. /\ DailyBalance(day, at).late = 0 /\ DailyBalance(day, at).night = 0
    BY <1>11, <1>12 DEF DailyBalance
  <2>7. DailyBalance(day, at).onHoliday = 0
    BY <1>9 DEF DailyBalance, b
  <2>8. /\ DailyBalance(day, at).complete = 0
        /\ DailyBalance(day, at).partial = 0
        /\ DailyBalance(day, at).absent = 0
    BY <2>1 DEF DailyBalance, b
  <2>9. QED
    BY <2>2, <2>3, <2>4, <2>5, <2>6, <2>7, <2>8 DEF Counts, MetricNames
<1>16. QED
  BY <1>15 DEF RowOf, day, at

\* Days to come leave the totals of a period that ends today as they are.
LEMMA AheadAddsNothing ==
    ASSUME Dated, Begun, NEW period, NEW first \in Int, period.first = first,
           NEW hire, NEW N \in Nat, Today(now) < first + N
    PROVE  \A k \in Nat : \A f \in Counts :
             Totals(period, hire, now)[N + k][f] =
               Totals(period, hire, now)[N][f]
<1> DEFINE total == Totals(period, hire, now)
           S == {k \in Nat : \A f \in Counts : total[N + k][f] = total[N][f]}
<1> HIDE DEF total
<1>1. TypeOK /\ now \in Int /\ Today(now) \in Int
  BY TodayBounds DEF Dated, TypeOK
<1>2. 0 \in S
  OBVIOUS
<1>3. ASSUME NEW k \in S PROVE k + 1 \in S
  <2>1. N + k \in Nat /\ N + (k + 1) = (N + k) + 1
        /\ first + (N + k) \in Int /\ Today(now) < first + (N + k)
    BY <1>1, <1>3
  <2> DEFINE row == RowOf(period, first + (N + k), hire, now)
  <2>2. total[N + (k + 1)] = Plus(total[N + k], row)
    BY <2>1, TotalsStep DEF total
  <2>3. total[N + k] \in Metric /\ row \in Metric
    BY <1>1, <2>1, TotalsType, RowType DEF total
  <2>4. \A f \in Counts : row[f] = 0
    BY <2>1, AheadCountsNothing
  <2> HIDE DEF row
  <2>5. \A f \in Counts : total[N + (k + 1)][f] = total[N + k][f]
    <3> SUFFICES ASSUME NEW f \in Counts
                 PROVE  total[N + (k + 1)][f] = total[N + k][f]
      OBVIOUS
    <3>1. f \in MetricNames
      BY DEF Counts
    <3>2. total[N + k][f] \in Int /\ row[f] = 0
      BY <2>3, <2>4, <3>1 DEF Metric
    <3>3. total[N + (k + 1)][f] = total[N + k][f] + row[f]
      BY <2>2, <2>3, <3>1, PlusType
    <3>4. QED
      BY <3>2, <3>3
  <2>6. QED
    BY <1>3, <2>5
<1> HIDE DEF S
<1>4. \A k \in Nat : k \in S
  <2>1. S \in SUBSET Nat
    BY DEF S
  <2>2. QED
    BY <1>2, <1>3, <2>1, Induction
<1>5. QED
  BY <1>4 DEF S, total

\* Of a day the reports count nothing of the calendar but the holiday they
\* read.
LEMMA BankReads ==
    ASSUME NEW p \in Plan, NEW q \in Plan, p.schedule = q.schedule,
           p.employed = q.employed, ReadHoliday(p) = ReadHoliday(q)
    PROVE  \A m, c, at : /\ TimeBank(m, p, c, at) = TimeBank(m, q, c, at)
                         /\ ReportExpected(p, c) = ReportExpected(q, c)
                         /\ ReportLate(m, p, c) = ReportLate(m, q, c)
                         /\ ReportNight(m, p) = ReportNight(m, q)
<1> SUFFICES ASSUME NEW m, NEW c, NEW at
             PROVE  /\ TimeBank(m, p, c, at) = TimeBank(m, q, c, at)
                    /\ ReportExpected(p, c) = ReportExpected(q, c)
                    /\ ReportLate(m, p, c) = ReportLate(m, q, c)
                    /\ ReportNight(m, p) = ReportNight(m, q)
  OBVIOUS
<1>1. ReportExpected(p, c) = ReportExpected(q, c)
  BY DEF ReportExpected
<1>2. ReportLate(m, p, c) = ReportLate(m, q, c)
  BY DEF ReportLate
<1>3. ReportFinalWork(m, p, c, at) = ReportFinalWork(m, q, c, at)
  BY <1>1 DEF ReportFinalWork
<1>4. ReportDue(m, p, c, at) = ReportDue(m, q, c, at)
  BY <1>1, <1>2 DEF ReportDue
<1>5. TimeBank(m, p, c, at) = TimeBank(m, q, c, at)
  BY <1>1, <1>3, <1>4 DEF TimeBank
<1>6. ReportNight(m, p) = ReportNight(m, q)
  BY DEF ReportNight
<1>7. QED
  BY <1>1, <1>2, <1>5, <1>6

\* A day up to today has the same row in two periods from the same day on,
\* one that ends today and one that goes on, if no holiday of tomorrow is
\* read as one of today.
LEMMA PastAlike ==
    ASSUME TypeOK, NEW first \in Int, NEW today \in Int, NEW last \in Int,
           today <= last, plan.west => StoredOn(today + 1) = "none",
           NEW d \in Int, first <= d, d <= today, NEW hire, NEW at
    PROVE  RowOf([first |-> first, last |-> last], d, hire, at) =
             RowOf([first |-> first, last |-> today], d, hire, at)
<1> DEFINE long == [first |-> first, last |-> last]
           short == [first |-> first, last |-> today]
           x == Context(long, d, hire)
           y == Context(short, d, hire)
           day == DayOf(d, hire)
<1>1. day \in DayRow /\ day.plan \in Plan
  BY DayOfType, DayParts
<1>2. day.plan.west = plan.west /\ day.plan.next = StoredOn(d + 1)
  BY DEF DayOf, StoredOn, TypeOK, Plan
<1>3. x \in DayRow /\ y \in DayRow
  BY ContextType
<1> DEFINE nx == IF d + 1 <= last THEN day.plan.next ELSE "none"
           ny == IF d + 1 <= today THEN day.plan.next ELSE "none"
<1>4. /\ d \in first..last /\ d \in first..today
      /\ d + 1 \in first..last <=> d + 1 <= last
      /\ d + 1 \in first..today <=> d + 1 <= today
  OBVIOUS
<1> HIDE DEF day
<1>5. /\ x = [day EXCEPT !.plan = [day.plan EXCEPT !.next = nx]]
      /\ y = [day EXCEPT !.plan = [day.plan EXCEPT !.next = ny]]
  BY <1>1, <1>4 DEF Context, day, DayRow, Plan
<1>6. plan.west => nx = ny
  <2>1. CASE d = today
    BY <1>2, <2>1
  <2>2. CASE d # today
    <3>1. d + 1 <= today /\ d + 1 <= last
      BY <2>2
    <3>2. QED
      BY <3>1
  <2>3. QED
    BY <2>1, <2>2
<1> HIDE DEF nx, ny
<1>7. /\ x.marks = y.marks /\ x.recorded = y.recorded /\ x.cover = y.cover
      /\ x.plan.schedule = y.plan.schedule
      /\ x.plan.employed = y.plan.employed
      /\ x.plan.west = plan.west /\ y.plan.west = plan.west
      /\ x.plan.holiday = y.plan.holiday
      /\ x.plan.next = nx /\ y.plan.next = ny
  BY <1>1, <1>2, <1>5 DEF DayRow, Plan
<1>8. x.plan \in Plan /\ y.plan \in Plan
  BY <1>3, DayParts
<1>9. ReadHoliday(x.plan) = ReadHoliday(y.plan)
  BY <1>6, <1>7 DEF ReadHoliday
<1> DEFINE t == On(d, at)
<1> HIDE DEF x, y, t
<1>10. /\ TimeBank(x.marks, x.plan, x.cover, t) =
             TimeBank(y.marks, y.plan, y.cover, t)
       /\ ReportLate(x.marks, x.plan, x.cover) =
             ReportLate(y.marks, y.plan, y.cover)
       /\ ReportNight(x.marks, x.plan) = ReportNight(y.marks, y.plan)
  BY <1>7, <1>8, <1>9, BankReads
<1>11. /\ Outside(x, t) = Outside(y, t)
       /\ \A r : AbsentOn(x, r) = AbsentOn(y, r)
  BY <1>7, <1>9 DEF Outside, AbsentOn
<1>12. DailyBalance(x, t) = DailyBalance(y, t)
  BY <1>7, <1>9, <1>10, <1>11 DEF DailyBalance
<1>13. QED
  BY <1>12 DEF RowOf, x, y, t

\* ... and the same totals up to today.
LEMMA PastTotals ==
    ASSUME TypeOK, NEW first \in Int, NEW today \in Int, NEW last \in Int,
           today <= last, plan.west => StoredOn(today + 1) = "none",
           NEW hire, NEW at
    PROVE  \A n \in Nat : first + n <= today + 1 =>
             Totals([first |-> first, last |-> last], hire, at)[n] =
               Totals([first |-> first, last |-> today], hire, at)[n]
<1> DEFINE long == [first |-> first, last |-> last]
           short == [first |-> first, last |-> today]
           x == Totals(long, hire, at)
           y == Totals(short, hire, at)
           S == {n \in Nat : first + n <= today + 1 => x[n] = y[n]}
<1> HIDE DEF x, y
<1>1. long.first = first /\ short.first = first
  OBVIOUS
<1>2. /\ x[0] = EmptyMetrics /\ y[0] = EmptyMetrics
      /\ \A n \in Nat :
           /\ x[n + 1] = Plus(x[n], RowOf(long, first + n, hire, at))
           /\ y[n + 1] = Plus(y[n], RowOf(short, first + n, hire, at))
  BY <1>1, TotalsStep DEF x, y
<1>3. 0 \in S
  BY <1>2
<1>4. ASSUME NEW n \in S PROVE n + 1 \in S
  <2>1. SUFFICES ASSUME first + (n + 1) <= today + 1
                 PROVE  x[n + 1] = y[n + 1]
    OBVIOUS
  <2>2. /\ first + n \in Int /\ first <= first + n /\ first + n <= today
        /\ x[n] = y[n]
    BY <1>4, <2>1
  <2>3. RowOf(long, first + n, hire, at) = RowOf(short, first + n, hire, at)
    BY <2>2, PastAlike
  <2>4. QED
    BY <1>2, <1>4, <2>2, <2>3
<1> HIDE DEF S
<1>5. \A n \in Nat : n \in S
  <2>1. S \in SUBSET Nat
    BY DEF S
  <2>2. QED
    BY <1>3, <1>4, <2>1, Induction
<1>6. QED
  BY <1>5 DEF S, x, y

LEMMA NobodyOwesAhead == Dated /\ Begun => NothingOwedAhead
<1> SUFFICES ASSUME Dated, Begun, NEW hire \in Hires, NEW last \in LastDays,
                    Today(now) <= last,
                    plan.west => StoredOn(Today(now) + 1) = "none"
             PROVE  Incurred(Metrics(Period(CumulativeStart(hire, now), last,
                                            now), hire, now))
                      = Incurred(CumulativeBankHours(hire, now))
  BY DEF NothingOwedAhead
<1> DEFINE start == CumulativeStart(hire, now)
           today == Today(now)
           long == [first |-> start, last |-> last]
           short == [first |-> start, last |-> today]
           total == Totals(long, hire, now)
           N == today - start + 1
           M == last - start + 1
<1>1. TypeOK /\ now \in Int /\ today \in Int /\ last \in Int
  BY TodayBounds, ReportsAssumption DEF Dated, TypeOK
<1>2. start \in Int /\ start <= today
  <2>1. hire # Null => hire \in Int
    BY ReportsAssumption
  <2>2. QED
    BY <1>1, <2>1 DEF CumulativeStart, Least
<1>3. start # Null /\ last # Null /\ today # Null
  BY <1>1, <1>2, Constants
<1>4. Totals(short, hire, now)[N] = total[N]
  <2>1. N \in Nat /\ start + N <= today + 1
    BY <1>1, <1>2
  <2>2. plan.west => StoredOn(today + 1) = "none"
    OBVIOUS
  <2> HIDE DEF start, today, N
  <2>3. QED
    BY <1>1, <1>2, <2>1, <2>2, PastTotals DEF today
<1> HIDE DEF start, today
<1>5. N \in Nat /\ M \in Nat /\ M - N \in Nat /\ N + (M - N) = M
      /\ today < start + N
  BY <1>1, <1>2 DEF today
<1>6. NonNeg(N) = N /\ NonNeg(M) = M
  BY <1>5 DEF NonNeg
<1>7. Period(start, last, now) = long /\ Period(start, today, now) = short
  BY <1>3 DEF Period
<1>8. Metrics(Period(start, last, now), hire, now) = total[M]
  BY <1>6, <1>7 DEF Metrics
<1>9. CumulativeBankHours(hire, now) = total[N]
  <2>1. CumulativeBankHours(hire, now)
          = Metrics(Period(start, today, now), hire, now)
    BY DEF CumulativeBankHours, start, today
  <2>2. QED
    BY <1>4, <1>6, <1>7, <2>1 DEF Metrics
<1>10. \A f \in Counts : total[M][f] = total[N][f]
  <2> DEFINE k == M - N
  <2>1. k \in Nat /\ N + k = M
    BY <1>5
  <2>2. \A i \in Nat : \A f \in Counts : total[N + i][f] = total[N][f]
    BY <1>1, <1>2, <1>5, long.first = start, AheadAddsNothing DEF today
  <2> HIDE DEF total, N, M, k
  <2>3. QED
    BY <2>1, <2>2
<1>11. total[M] \in Metric /\ total[N] \in Metric
  BY <1>1, <1>2, <1>5, TotalsType
<1> HIDE DEF total
<1>12. DOMAIN total[M] = MetricNames /\ DOMAIN total[N] = MetricNames
  BY <1>11 DEF Metric
<1>13. Incurred(total[M]) = Incurred(total[N])
  BY <1>10, <1>12 DEF Incurred, Counts
<1>14. QED
  BY <1>8, <1>9, <1>13 DEF start

-----------------------------------------------------------------------------
(***************************************************************************)
(* The reports of one day.                                                 *)
(***************************************************************************)
\* The day as a report reads it that does not reach the next day, and as the
\* time bank reads it once that has come.
TodayPlan == [plan EXCEPT !.next = "none"]
BankPlan == IF Over(now) THEN plan ELSE TodayPlan

DayWith(p) == [marks |-> marks, recorded |-> Marked(marks) \cup rejected # {},
               plan |-> p, cover |-> cover]

LEMMA DayPlans ==
    ASSUME TypeOK
    PROVE  \A p \in {TodayPlan, BankPlan} :
             /\ p \in Plan /\ p.schedule = plan.schedule
             /\ p.employed = plan.employed /\ p.west = plan.west
             /\ p.holiday = plan.holiday
             /\ p.next \in {plan.next, "none"}
<1>1. plan \in Plan /\ "none" \in Holiday
  BY DEF TypeOK, Holiday
<1>2. /\ TodayPlan \in Plan /\ TodayPlan.schedule = plan.schedule
      /\ TodayPlan.employed = plan.employed /\ TodayPlan.west = plan.west
      /\ TodayPlan.holiday = plan.holiday /\ TodayPlan.next = "none"
  BY <1>1 DEF TodayPlan, Plan
<1>3. BankPlan \in {plan, TodayPlan}
  BY DEF BankPlan
<1>4. QED
  BY <1>1, <1>2, <1>3

\* What a period that holds day 0 reads of it.
LEMMA DayInPeriod ==
    ASSUME TypeOK, NEW first \in Int, NEW last \in Int, first <= 0, 0 <= last
    PROVE  Context([first |-> first, last |-> last], 0, Null) =
             DayWith(IF 1 <= last THEN plan ELSE TodayPlan)
<1> DEFINE period == [first |-> first, last |-> last]
<1>1. 0 \in first..last /\ (1 \in first..last <=> 1 <= last) /\ 0 + 1 = 1
  OBVIOUS
<1>2. DayOf(0, Null) = DayWith(plan)
  BY DEF DayOf, DayWith
<1>3. Context(period, 0, Null) =
        [DayWith(plan) EXCEPT
           !.plan.holiday = plan.holiday,
           !.plan.next = IF 1 <= last THEN plan.next ELSE "none",
           !.cover = cover]
  <2>1. /\ DayWith(plan).cover = cover /\ DayWith(plan).plan = plan
    BY DEF DayWith
  <2>2. Context(period, 0, Null) =
          [DayWith(plan) EXCEPT
             !.plan.holiday = DayWith(plan).plan.holiday,
             !.plan.next = IF 1 <= last THEN DayWith(plan).plan.next
                                        ELSE "none",
             !.cover = DayWith(plan).cover]
    BY <1>1, <1>2 DEF Context
  <2>3. QED
    BY <2>1, <2>2
<1>4. Context(period, 0, Null) =
        DayWith([plan EXCEPT !.holiday = plan.holiday,
                             !.next = IF 1 <= last THEN plan.next
                                                   ELSE "none"])
  BY <1>3 DEF DayWith, TypeOK, Plan
<1>5. [plan EXCEPT !.holiday = plan.holiday,
                   !.next = IF 1 <= last THEN plan.next ELSE "none"] =
        IF 1 <= last THEN plan ELSE TodayPlan
  BY DEF TypeOK, Plan, TodayPlan
<1>6. QED
  BY <1>4, <1>5

\* Today as the reports of the last thirty days see it.
LEMMA TodayIsKnown ==
    ASSUME TypeOK, NEW at \in Int, IsToday(at)
    PROVE  /\ Today(at) = 0 /\ On(0, at) = at
           /\ TodayIn(Period(Null, Null, at), at) = DayWith(TodayPlan)
<1>1. Today(at) = 0
  BY TodayBounds
<1>2. Period(Null, Null, at) = [first |-> 0 - 29, last |-> 0]
  BY <1>1 DEF Period
<1>3. TodayIn(Period(Null, Null, at), at) = DayWith(TodayPlan)
  <2>1. 0 - 29 \in Int /\ 0 - 29 <= 0 /\ ~(1 <= 0)
    OBVIOUS
  <2>2. Context([first |-> 0 - 29, last |-> 0], 0, Null) = DayWith(TodayPlan)
    BY <2>1, DayInPeriod
  <2>3. QED
    BY <1>1, <1>2, <2>2 DEF TodayIn
<1>4. On(0, at) = at
  BY Constants DEF On
<1>5. QED
  BY <1>1, <1>3, <1>4

\* The row of day 0.
LEMMA RowOfDay ==
    ASSUME TypeOK
    PROVE  LET row == RowOf(SoFar, 0, Null, now)
               day == DayWith(BankPlan)
               bank == TimeBank(marks, BankPlan, cover, now)
           IN  /\ row.worked = bank.worked /\ row.required = bank.required
               /\ row.expected = bank.expected /\ row.balance = bank.balance
               /\ row.late = IF plan.employed
                               THEN ReportLate(marks, plan, cover) ELSE 0
               /\ row.night = ReportNight(marks, plan)
               /\ row.onHoliday = IF ReadHoliday(BankPlan) = "none" THEN 0
                                  ELSE bank.worked
               /\ row.complete = One(plan.employed /\
                                       (Complete(marks) \/ Outside(day, now)))
               /\ row.partial = One(plan.employed /\ day.recorded /\
                                      ~(Complete(marks) \/ Outside(day, now)))
               /\ row.absent = One(plan.employed
                                     /\ AbsentOn(day, bank.required))
               /\ row.justified = One(plan.employed /\
                                        (cover.full \/ cover.absent > 0))
<1> DEFINE day == DayWith(BankPlan)
<1>1. /\ day.marks = marks /\ day.plan = BankPlan /\ day.cover = cover
  BY DEF DayWith
<1>2. On(0, now) = now /\ now \in Int
  BY Constants DEF On, TypeOK
<1>3. Context(SoFar, 0, Null) = day
  <2> DEFINE last == Greatest(0, Today(now))
  <2>1. Today(now) \in Int /\ (Over(now) <=> 1 <= Today(now))
    <3>1. /\ Today(now) \in Int
          /\ Today(now) = 0 <=> IsToday(now)
          /\ Today(now) < 0 <=> Future(now)
      BY <1>2, TodayBounds
    <3>2. Over(now) => ~Future(now)
      BY <1>2, Constants DEF Over, Future
    <3>3. QED
      BY <3>1, <3>2 DEF IsToday
  <2>2. last \in Int /\ 0 <= last /\ (1 <= last <=> Over(now))
    BY <2>1 DEF Greatest
  <2>3. SoFar = [first |-> 0, last |-> last]
    BY <2>2, Constants DEF SoFar, Period
  <2> HIDE DEF last
  <2>4. Context([first |-> 0, last |-> last], 0, Null) =
          DayWith(IF 1 <= last THEN plan ELSE TodayPlan)
    BY <2>2, DayInPeriod
  <2>5. (IF 1 <= last THEN plan ELSE TodayPlan) = BankPlan
    BY <2>2 DEF BankPlan
  <2>6. QED
    BY <2>3, <2>4, <2>5
<1>4. RowOf(SoFar, 0, Null, now) = DailyBalance(day, now)
  BY <1>2, <1>3 DEF RowOf
<1>5. BankPlan.schedule = plan.schedule /\ BankPlan.employed = plan.employed
  BY DayPlans
<1>6. /\ ReportLate(marks, BankPlan, cover) = ReportLate(marks, plan, cover)
      /\ ReportNight(marks, BankPlan) = ReportNight(marks, plan)
  BY <1>5 DEF ReportLate, ReportNight
<1> HIDE DEF day
<1>7. QED
  BY <1>1, <1>4, <1>5, <1>6 DEF DailyBalance, day

LEMMA TodayAlike == TypeOK => TodayShownAlike(RowOf(SoFar, 0, Null, now))
<1> DEFINE asked == Period(Null, Null, now)
           view == DailyView(asked, now)
           row == RowOf(SoFar, 0, Null, now)
           p == [TodayPlan EXCEPT !.holiday = "none", !.next = "none"]
<1> SUFFICES ASSUME TypeOK, IsToday(now),
                    ReadHoliday(TodayIn(asked, now).plan) # "paid"
             PROVE  \A f \in DOMAIN view : view[f] = row[f]
  BY DEF TodayShownAlike
<1>1. now \in Int /\ marks \in Markings /\ plan \in Plan /\ cover \in Cover
  BY DEF TypeOK
<1>2. /\ TodayPlan \in Plan /\ TodayPlan.schedule = plan.schedule
      /\ TodayPlan.employed = plan.employed
  BY DayPlans
<1>3. /\ p \in Plan /\ p.schedule = TodayPlan.schedule
      /\ p.employed = TodayPlan.employed /\ ReadHoliday(p) = "none"
  BY <1>2 DEF Plan, Holiday, ReadHoliday
<1>4. /\ Today(now) = 0 /\ On(0, now) = now
      /\ TodayIn(asked, now) = DayWith(TodayPlan)
  BY <1>1, TodayIsKnown
<1>5. ReadHoliday(TodayPlan) # "paid"
  BY <1>4 DEF DayWith
<1>6. BankPlan = TodayPlan
  BY DEF BankPlan, IsToday
<1>7. [DayWith(TodayPlan) EXCEPT !.plan.holiday = "none",
                                 !.plan.next = "none"] = DayWith(p)
  <2>1. ASSUME NEW d \in DayRow
        PROVE  [d EXCEPT !.plan.holiday = "none", !.plan.next = "none"] =
                 [d EXCEPT !.plan = [d.plan EXCEPT !.holiday = "none",
                                                   !.next = "none"]]
    BY DEF DayRow, Plan
  <2>2. DayWith(TodayPlan) \in DayRow
    BY <1>1, <1>2 DEF DayWith, DayRow
  <2>3. DayWith(TodayPlan).plan = TodayPlan
    BY DEF DayWith
  <2>4. \A q, r : [DayWith(q) EXCEPT !.plan = r] = DayWith(r)
    <3> DEFINE b == Marked(marks) \cup rejected # {}
    <3>1. \A q : DayWith(q) = [marks |-> marks, recorded |-> b, plan |-> q,
                               cover |-> cover]
      BY DEF DayWith
    <3> HIDE DEF b
    <3>2. \A q, r : [[marks |-> marks, recorded |-> b, plan |-> q,
                      cover |-> cover] EXCEPT !.plan = r] =
                    [marks |-> marks, recorded |-> b, plan |-> r,
                     cover |-> cover]
      OBVIOUS
    <3>3. QED
      BY <3>1, <3>2
  <2> DEFINE d == DayWith(TodayPlan)
  <2> HIDE DEF d
  <2>5. [d EXCEPT !.plan.holiday = "none", !.plan.next = "none"] =
          [d EXCEPT !.plan = [d.plan EXCEPT !.holiday = "none",
                                            !.next = "none"]]
    BY <2>1, <2>2 DEF d
  <2>6. [d.plan EXCEPT !.holiday = "none", !.next = "none"] = p
    BY <2>3 DEF d
  <2> HIDE DEF p
  <2>7. QED
    BY <2>4, <2>5, <2>6 DEF d
<1>8. view = Sheet(DayWith(p), now)
  BY <1>4, <1>7 DEF DailyView
<1> HIDE DEF p
<1>9. view = DailySheet(marks, p, cover, now)
  BY <1>8 DEF Sheet, DayWith
<1>10. view = TimeBank(marks, p, cover, now)
  BY <1>1, <1>3, <1>9, SheetIsBank
<1>11. ReportExpected(p, cover) = ReportExpected(TodayPlan, cover)
  BY <1>3, <1>5 DEF ReportExpected
<1>12. ReportLate(marks, p, cover) = ReportLate(marks, TodayPlan, cover)
  BY <1>3 DEF ReportLate
<1>13. ReportFinalWork(marks, p, cover, now) =
         ReportFinalWork(marks, TodayPlan, cover, now)
  BY <1>3, <1>11 DEF ReportFinalWork
<1>14. ReportDue(marks, p, cover, now) =
         ReportDue(marks, TodayPlan, cover, now)
  BY <1>3, <1>11, <1>12 DEF ReportDue
<1>15. view = TimeBank(marks, BankPlan, cover, now)
  BY <1>3, <1>6, <1>10, <1>11, <1>13, <1>14 DEF TimeBank
<1>16. DOMAIN TimeBank(marks, BankPlan, cover, now) =
         {"worked", "expected", "required", "balance"}
  BY DEF TimeBank, BankRow, EmptyRow
<1> HIDE DEF view
<1>17. QED
  BY <1>15, <1>16, RowOfDay DEF view

LEMMA SheetAlike == TypeOK => SheetTellsAlike(RowOf(SoFar, 0, Null, now))
<1> DEFINE day == Context(Period(0, 0, now), 0, Null)
           row == RowOf(SoFar, 0, Null, now)
           bank == TimeBank(marks, BankPlan, cover, now)
           m == Counted(marks, plan)
           sheet == SheetSummary(day, now)
<1> SUFFICES ASSUME TypeOK, ~cover.external, marks["entry"] # Null,
                    plan.west => plan.next = "none"
             PROVE  \A f \in DOMAIN sheet : sheet[f] = row[f]
  BY DEF SheetTellsAlike
<1>1. now \in Int /\ marks \in Markings /\ plan \in Plan /\ cover \in Cover
  BY DEF TypeOK
<1>2. day = DayWith(TodayPlan)
  <2>1. Period(0, 0, now) = [first |-> 0, last |-> 0]
    BY Constants DEF Period
  <2>2. QED
    BY <2>1, DayInPeriod
<1>3. /\ day.marks = marks /\ day.plan = TodayPlan /\ day.cover = cover
  BY <1>2 DEF DayWith
<1>4. /\ TodayPlan \in Plan /\ BankPlan \in Plan
      /\ TodayPlan.schedule = plan.schedule
      /\ TodayPlan.employed = plan.employed
      /\ BankPlan.schedule = plan.schedule
      /\ BankPlan.employed = plan.employed
      /\ ReadHoliday(TodayPlan) = ReadHoliday(BankPlan)
  BY DayPlans DEF ReadHoliday
<1>5. /\ plan.employed => m = marks
      /\ ~plan.employed => m = NoMarkings /\ m["entry"] = Null
                           /\ m["exit"] = Null /\ ~Complete(m)
  BY Constants DEF Counted, NoMarkings, Complete, Marked, Types
<1>6. Sheet(day, now) = bank
  <2>1. Sheet(day, now) = TimeBank(marks, TodayPlan, cover, now)
    BY <1>1, <1>3, <1>4, SheetIsBank DEF Sheet
  <2>2. QED
    BY <1>4, <2>1, BankReads
<1>7. ~Outside(day, now) /\ ~Outside(DayWith(BankPlan), now)
  BY <1>3 DEF Outside, DayWith
<1>8. Counted(marks, TodayPlan) = m
  BY <1>4 DEF Counted
<1> HIDE DEF day
<1>9. sheet.balance = row.balance
  BY <1>6, RowOfDay DEF SheetSummary
<1>10. Late(plan.schedule, m["entry"]) =
        IF plan.employed THEN ReportLate(marks, plan, cover) ELSE 0
  BY <1>5 DEF ReportLate, Late
<1>11. sheet.late = row.late
  BY <1>3, <1>4, <1>8, <1>10, RowOfDay DEF SheetSummary
<1>12. sheet.night = row.night
  BY <1>3, <1>5, <1>8, RowOfDay DEF SheetSummary, ReportNight
<1>13. ReportedWork(m, plan.schedule, cover, now) = bank.worked
  BY <1>4, <1>5
  DEF ReportedWork, TimeBank, BankRow, EmptyRow, ReportFinalWork
<1>14. sheet.onHoliday = row.onHoliday
  BY <1>3, <1>4, <1>8, <1>13, RowOfDay DEF SheetSummary
<1>15. Complete(marks) <=> marks["exit"] # Null
  BY DEF Complete, Marked, Types
<1>16. One(m["exit"] # Null \/ (TodayPlan.employed /\ Outside(day, now))) =
         One(plan.employed
               /\ (Complete(marks) \/ Outside(DayWith(BankPlan), now)))
  BY <1>1, <1>5, <1>7, <1>15, PlanParts DEF One
<1>17. sheet.complete = row.complete
  BY <1>3, <1>8, <1>16, RowOfDay DEF SheetSummary
<1>18. sheet.justified = row.justified
  BY <1>3, <1>4, RowOfDay DEF SheetSummary
<1>19. DOMAIN sheet = {"balance", "late", "night", "onHoliday", "complete",
                       "justified"}
  BY DEF SheetSummary
<1>20. QED
  BY <1>9, <1>11, <1>12, <1>14, <1>17, <1>18, <1>19

LEMMA CalledOwe == TypeOK => CalledMayOwe(RowOf(SoFar, 0, Null, now))
<1> DEFINE day == TodayIn(Period(Null, Null, now), now)
           row == RowOf(SoFar, 0, Null, now)
           bank == TimeBank(marks, TodayPlan, cover, now)
<1> SUFFICES ASSUME TypeOK, IsToday(now), plan.employed,
                    MissingClockIn(day, now)
             PROVE  /\ row.expected > 0
                    /\ row.worked = 0 /\ row.late = 0 /\ row.complete = 0
                    /\ Workforce(day, "none") # "unlisted"
  BY DEF CalledMayOwe
<1>1. now \in Int
  BY DEF TypeOK
<1>2. day = DayWith(TodayPlan)
  BY <1>1, TodayIsKnown
<1>3. /\ day.marks = marks /\ day.plan = TodayPlan /\ day.cover = cover
      /\ BankPlan = TodayPlan
      /\ TodayPlan.schedule = plan.schedule /\ TodayPlan.employed
  <2>1. BankPlan = TodayPlan
    BY DEF BankPlan, IsToday
  <2>2. TodayPlan.schedule = plan.schedule /\ TodayPlan.employed
    BY DayPlans
  <2> HIDE DEF day
  <2>3. QED
    BY <1>2, <2>1, <2>2 DEF DayWith
<1> HIDE DEF day
<1>4. /\ Scheduled(day) /\ ~cover.external /\ marks["entry"] = Null
  BY <1>3 DEF MissingClockIn
<1>5. ReportExpected(TodayPlan, cover) > 0
  BY <1>3, <1>4 DEF Scheduled
<1>6. ReportedWork(marks, TodayPlan.schedule, cover, now) = 0
  BY <1>4 DEF ReportedWork
<1>7. bank.worked = 0 /\ bank.expected = ReportExpected(TodayPlan, cover)
  BY <1>3, <1>4, <1>6 DEF TimeBank, BankRow, ReportFinalWork
<1>8. ReportLate(marks, plan, cover) = 0
  BY <1>4 DEF ReportLate, Late
<1>9. ~Complete(marks) /\ ~Outside(DayWith(BankPlan), now)
  BY <1>2, <1>3, <1>4 DEF Complete, Marked, Outside
<1>10. row.complete = 0
  BY <1>9, RowOfDay DEF One
<1>11. Workforce(day, "none") # "unlisted"
  BY <1>4 DEF Workforce
<1>12. QED
  BY <1>3, <1>5, <1>7, <1>8, <1>10, <1>11, RowOfDay

LEMMA AbsentCalled == TypeOK => AbsentWasCalled(RowOf(SoFar, 0, Null, now))
<1> DEFINE s == plan.schedule
           evening == DayLength - 1
           row == RowOf(SoFar, 0, Null, now)
           bank == TimeBank(marks, BankPlan, cover, now)
           judged == DayWith(BankPlan)
           day == DayWith(TodayPlan)
<1> SUFFICES ASSUME TypeOK, row.absent = 1, ReportWorkload(s) > 0,
                    EntryDue(s) + LateTolerance < evening
             PROVE  /\ Over(now)
                    /\ MissingClockIn(TodayIn(Period(Null, Null, evening),
                                              evening), evening)
  BY DEF AbsentWasCalled
<1>1. now \in Int /\ marks \in Markings /\ plan \in Plan /\ cover \in Cover
  BY DEF TypeOK
<1>2. /\ BankPlan \in Plan /\ TodayPlan \in Plan
      /\ BankPlan.schedule = s /\ TodayPlan.schedule = s
      /\ BankPlan.employed = plan.employed
      /\ BankPlan.west = plan.west /\ TodayPlan.west = plan.west
      /\ BankPlan.holiday = plan.holiday /\ TodayPlan.holiday = plan.holiday
      /\ TodayPlan.next = "none"
  BY DayPlans DEF TodayPlan, TypeOK, Plan
<1>3. plan.employed /\ AbsentOn(judged, bank.required)
  <2>1. row.absent = One(plan.employed /\ AbsentOn(judged, bank.required))
    BY RowOfDay
  <2>2. QED
    BY <2>1 DEF One
<1>4. Marked(marks) = {} /\ ~cover.external /\ bank.required > 0
  BY <1>3 DEF AbsentOn, DayWith
<1>5. marks["entry"] = Null /\ ~Complete(marks)
  BY <1>4 DEF Marked, Complete, Types
<1>6. ReportedWork(marks, s, cover, now) = 0
      /\ ReportLate(marks, BankPlan, cover) = 0
  BY <1>2, <1>5 DEF ReportedWork, ReportLate, Late
<1>7. /\ bank.required <= ReportDue(marks, BankPlan, cover, now)
      /\ bank.required \in Nat /\ ReportDue(marks, BankPlan, cover, now) \in Nat
  BY <1>1, <1>2, <1>3, BankCredit
<1>8. ReportExpected(BankPlan, cover) \in Nat
  BY <1>1, <1>2, ExpectedNat
<1>9. ReportDue(marks, BankPlan, cover, now) > 0
  BY <1>4, <1>7
<1>10. ~Future(now) /\ ~IsToday(now)
  BY <1>2, <1>4, <1>5, <1>6, <1>8, <1>9 DEF ReportDue, Least
<1>11. Over(now) /\ ReportExpected(BankPlan, cover) > 0
  BY <1>9, <1>10 DEF IsToday, ReportDue
<1>12. ReportExpected(TodayPlan, cover) > 0
  <2>1. ReadHoliday(BankPlan) # "paid" => ReadHoliday(TodayPlan) # "paid"
    BY <1>2 DEF ReadHoliday
  <2>2. QED
    BY <1>2, <1>11, <2>1 DEF ReportExpected
<1>13. IsToday(evening) /\ evening \in Int
  BY Constants DEF IsToday, Future, Over
<1>14. TodayIn(Period(Null, Null, evening), evening) = day
  BY <1>13, TodayIsKnown
<1>15. MissingClockIn(day, evening)
  <2>1. EntryDue(s) + LateTolerance \in Int
    <3>1. s.entry # Null => s.entry \in Nat
      BY <1>1, PlanParts, InstantNat
    <3>2. QED
      BY <3>1, Constants DEF EntryDue
  <2>2. evening > EntryDue(s) + LateTolerance
    BY <1>13, <2>1
  <2>3. day.marks = marks /\ day.plan = TodayPlan /\ day.cover = cover
    BY DEF DayWith
  <2> HIDE DEF day, evening
  <2>4. QED
    BY <1>2, <1>4, <1>5, <1>12, <2>2, <2>3 DEF MissingClockIn, Scheduled
<1>16. QED
  BY <1>11, <1>14, <1>15

LEMMA LateDelayed == TypeOK => LateIsDelayed(RowOf(SoFar, 0, Null, now))
<1> DEFINE s == plan.schedule
           e == marks["entry"]
           row == RowOf(SoFar, 0, Null, now)
<1> SUFFICES ASSUME TypeOK, plan.employed, s.entry # Null, ~cover.external
             PROVE  ArrivedLate(DayOf(0, Null)) <=> row.late > 0
  BY DEF LateIsDelayed
<1>1. marks \in Markings /\ plan \in Plan
  BY DEF TypeOK
<1>2. DayOf(0, Null).marks = marks /\ DayOf(0, Null).plan = plan
  BY DEF DayOf
<1>3. row.late = Late(s, e)
  BY RowOfDay DEF ReportLate
<1>4. CASE e = Null
  BY <1>2, <1>3, <1>4 DEF ArrivedLate, Late
<1>5. CASE e # Null
  <2>1. e \in Nat /\ s.entry \in Nat /\ LateTolerance \in Nat
    BY <1>1, <1>5, PlanParts, MarkingParts, InstantNat, Constants
  <2>2. Late(s, e) = NonNeg(e - s.entry - LateTolerance)
    BY <1>5 DEF Late
  <2>3. NonNeg(e - s.entry - LateTolerance) > 0
          <=> e > s.entry + LateTolerance
    BY <2>1 DEF NonNeg
  <2>4. ArrivedLate(DayOf(0, Null)) <=> e > s.entry + LateTolerance
    BY <1>2, <1>5 DEF ArrivedLate, EntryDue
  <2>5. QED
    BY <1>3, <2>2, <2>3, <2>4
<1>6. QED
  BY <1>4, <1>5

LEMMA PresenceJudged == TypeOK => PresenceIsJudged(RowOf(SoFar, 0, Null, now))
<1> DEFINE row == RowOf(SoFar, 0, Null, now)
           done == Complete(marks) \/ Outside(DayWith(BankPlan), now)
<1> SUFFICES ASSUME TypeOK, plan.employed, Marked(marks) # {}
             PROVE  row.complete + row.partial = 1
  BY DEF PresenceIsJudged
<1>1. DayWith(BankPlan).recorded = TRUE
  BY DEF DayWith
<1>2. row.complete = One(plan.employed /\ done)
      /\ row.partial =
           One(plan.employed /\ DayWith(BankPlan).recorded /\ ~done)
  BY RowOfDay
<1> HIDE DEF done
<1>3. QED
  BY <1>1, <1>2 DEF One

\* The totals of a period, the report of today, the daily sheet, the board
\* and the time bank, which compute the day with a code of their own, tell
\* one story at every moment, for any schedule, hiring and period.
THEOREM ReportsAlwaysAgree == Spec => []ReportsAgree
<1>1. Spec => [](Dated /\ Begun)
  BY InitDated, StepDated, InitBegun, StepBegun, PTL DEF Spec
<1>2. Dated /\ Begun => ReportsAgree
  <2>1. Dated => TypeOK
    BY DEF Dated
  <2>2. QED
    BY <2>1, NobodyOwesAhead, TodayAlike, SheetAlike, CalledOwe, AbsentCalled,
       LateDelayed, PresenceJudged DEF ReportsAgree
<1>3. QED
  BY <1>1, <1>2, PTL
=============================================================================
