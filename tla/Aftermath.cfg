\* Two users, a terminal, a few markings; one scene per kind of request.
CONSTANTS
  u1 = u1
  u2 = u2
  n1 = n1
  n2 = n2
  t1 = t1
  s1 = s1
  s2 = s2
  Null = Null
  Users = {u1, u2}
  Pins = {n1, n2}
  Terminals = {t1}
  Slots = {s1, s2}
  MaxTime = 3
  MaxRecords = 2
  MaxFailed = 2
  Window = 2
  Positions = 2
  MaxCaptures = 4
  Retention = 1
  MaxPhotos = 2
  Scenes <- MCScenes
SPECIFICATION FairSpec
INVARIANT PinMarksItsOwner
INVARIANT FailuresLock
INVARIANT EnrolmentWhole
INVARIANT HolidaysReachSummaries
PROPERTY PhotosLastTheirTime
PROPERTY MarkingsAreNotified
\* The clock, the markings and the captures stop at their bounds.
CHECK_DEADLOCK FALSE
