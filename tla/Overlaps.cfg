\* A punch, a review and a closing of one month, overlapping freely. The only
\* fault is that a marking without photo may fail to be deleted.
CONSTANTS
  Null = Null
  u1 = u1
  p1 = p1
  r1 = r1
  c1 = c1
  Users = {u1}
  MCMaxTime = 0
  MaxTime = 0
  SlotsPerDay = 1
  DaysPerMonth = 1
  UtcAhead = 0
  MaxRecords = 1
  MaxRequests = 0
  LocalDay <- MCLocalDay
  DateKey <- MCDateKey
  Days <- MCDays
  Months <- MCMonths
  MonthOf <- MCMonthOf
  Adjustments <- NoAdjustments
  PunchSlots = {p1}
  ReviewSlots = {r1}
  ClosingSlots = {c1}
  DeskSlots = {}
  Channels = {"web", "remote"}
  Wants = {"auto"}
  NewTypes = {"exit"}
  Serialized = FALSE
  Faults = {"undo"}
SPECIFICATION FairSpec
PROPERTY RemoteHasPhoto
PROPERTY RecordIsSummarised
PROPERTY ClosedMonthSettles
\* Requests stop when the clock and the tables reach their bounds.
CHECK_DEADLOCK FALSE
