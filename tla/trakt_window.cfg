CONSTANTS
  Movies = {m1, m2, m3}
  Unusable = {}
  PageLimit = 1
  MaxPages = 2
  AlertAfter = 2
  PageCounts = {TRUE, FALSE}
  RemoveWhilePaging = FALSE
  AddsWhilePaging = 3
  MaxListed = 3
  MaxClock = 3
  MaxFailures = 0
  MaxStops = 1
SPECIFICATION TraktFairSpec
CHECK_DEADLOCK FALSE
PROPERTIES EventuallyScheduled
