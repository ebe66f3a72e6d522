\* Every kind of handler, one at a time, with every fault, in one month.
CONSTANTS
  Null = Null
  u1 = u1
  p1 = p1
  r1 = r1
  c1 = c1
  k1 = k1
  Users = {u1}
  MCMaxTime = 0
  MaxTime = 0
  SlotsPerDay = 1
  DaysPerMonth = 1
  UtcAhead = 0
  MaxRecords = 1
  MaxRequests = 1
  LocalDay <- MCLocalDay
  DateKey <- MCDateKey
  Days <- MCDays
  Months <- MCMonths
  MonthOf <- MCMonthOf
  Adjustments <- OneAdjustment
  PunchSlots = {p1}
  ReviewSlots = {r1}
  ClosingSlots = {c1}
  DeskSlots = {k1}
  Channels = {"remote"}
  Wants = {"auto"}
  NewTypes = {"exit"}
  Serialized = TRUE
  Faults = {"query", "restart", "undo"}
SPECIFICATION Spec
INVARIANT SnapshotFaithful
PROPERTY ImplementsLedger
\* Requests stop when the clock and the tables reach their bounds.
CHECK_DEADLOCK FALSE
