\* Two kiosk punches of a user in one minute.
CONSTANTS
  Null = Null
  u1 = u1
  p1 = p1
  p2 = p2
  Users = {u1}
  MCMaxTime = 0
  MaxTime = 0
  SlotsPerDay = 1
  DaysPerMonth = 1
  UtcAhead = 0
  MaxRecords = 2
  MaxRequests = 0
  LocalDay <- MCLocalDay
  DateKey <- MCDateKey
  Days <- MCDays
  Months <- MCMonths
  MonthOf <- MCMonthOf
  Adjustments <- NoAdjustments
  PunchSlots = {p1, p2}
  ReviewSlots = {}
  ClosingSlots = {}
  DeskSlots = {}
  Channels = {"kiosk"}
  Wants = {"auto"}
  NewTypes = {"exit"}
  Serialized = FALSE
  Faults = {}
SPECIFICATION Spec
INVARIANT NoTypeTwice
\* Requests stop when the clock and the tables reach their bounds.
CHECK_DEADLOCK FALSE
