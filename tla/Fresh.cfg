\* Every writer of a user's days, one at a time, without faults, in a UTC process:
\* two days, two markings, two requests.
CONSTANTS
  Null = Null
  u1 = u1
  p1 = p1
  r1 = r1
  k1 = k1
  Users = {u1}
  MCMaxTime = 1
  MaxTime = 1
  SlotsPerDay = 1
  DaysPerMonth = 2
  UtcAhead = 0
  MaxRecords = 2
  MaxRequests = 2
  LocalDay <- MCLocalDay
  DateKey <- MCDateKey
  Days <- MCDays
  Months <- MCMonths
  MonthOf <- MCMonthOf
  Adjustments <- TwoAdjustments
  PunchSlots = {p1}
  ReviewSlots = {r1}
  ClosingSlots = {}
  DeskSlots = {k1}
  Channels = {"web"}
  Wants = {"auto"}
  NewTypes = {"exit"}
  Serialized = TRUE
  Faults = {}
SPECIFICATION Spec
INVARIANT SummaryFresh
PROPERTY RecordKeepsItsDay
\* Requests stop when the clock and the tables reach their bounds.
CHECK_DEADLOCK FALSE
