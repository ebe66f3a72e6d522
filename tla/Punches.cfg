\* One punch at a time, five slots of which the last has the next day's UTC date,
\* and every fault. Four records are a whole journey.
CONSTANTS
  Null = Null
  u1 = u1
  p1 = p1
  Users = {u1}
  MCMaxTime = 4
  MaxTime = 4
  SlotsPerDay = 5
  DaysPerMonth = 2
  UtcAhead = 1
  MaxRecords = 4
  MaxRequests = 0
  LocalDay <- MCLocalDay
  DateKey <- MCDateKey
  Days <- MCDays
  Months <- MCMonths
  MonthOf <- MCMonthOf
  Adjustments <- NoAdjustments
  PunchSlots = {p1}
  ReviewSlots = {}
  ClosingSlots = {}
  DeskSlots = {}
  Channels = {"kiosk", "remote"}
  Wants = {"auto", "lunch_end", "exit"}
  NewTypes = {"exit"}
  Serialized = TRUE
  Faults = {"query", "restart", "undo"}
SPECIFICATION Spec
INVARIANT JourneyLegal
\* Requests stop when the clock and the tables reach their bounds.
CHECK_DEADLOCK FALSE
