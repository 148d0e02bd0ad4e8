CONSTANTS
  Movies = {m1, m2, m3}
  Unusable = {}
  PageLimit = 1
  MaxPages = 3
  AlertAfter = 2
  PageCounts = {TRUE, FALSE}
  RemoveWhilePaging = TRUE
  AddsWhilePaging = 3
  MaxListed = 3
  MaxClock = 3
  MaxFailures = 0
  MaxStops = 1
SPECIFICATION TraktSpec
CHECK_DEADLOCK FALSE
INVARIANTS NothingPassedOver
