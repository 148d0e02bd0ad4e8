CONSTANTS
  Movies = {m1, m2, m3}
  Unusable = {m3}
  PageLimit = 1
  MaxPages = 3
  AlertAfter = 2
  PageCounts = {TRUE, FALSE}
  RemoveWhilePaging = FALSE
  AddsWhilePaging = 1
  MaxListed = 3
  MaxClock = 3
  MaxFailures = 2
  MaxStops = 1
SPECIFICATION TraktFairSpec
CHECK_DEADLOCK FALSE
INVARIANTS TraktTypeOK ScheduledOnce NothingPassedOver InsertedInListOrder
PROPERTIES NoFalseAlarm EventuallyScheduled
