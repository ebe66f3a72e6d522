\* One employee's day by the hour.
CONSTANTS
  Null = Null
  Hour <- MCHour
  NightStart = 22
  NightEnd = 5
  LateTolerance = 1
  Moments <- MCMoments
  Plans <- MCPlans
  Covers <- MCCovers
  Adjusted <- MCAdjusted
  Hires <- MCHires
  LastDays <- MCLastDays
SPECIFICATION Spec
INVARIANT SheetMatchesBank
INVARIANT SummaryMatchesBank
INVARIANT NoOvertimeByCredit
INVARIANT NightCounted
INVARIANT ReportsAgree
PROPERTY SettledDayStands
