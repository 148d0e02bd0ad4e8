CONSTANTS
  Movies = {m1, m2, m3}
  Unusable = {}
  PageLimit = 1
  MaxPages = 3
  AlertAfter = 2
  PageCounts = {TRUE, FALSE}
  RemoveWhilePaging = FALSE
  AddsWhilePaging = 2
  MaxListed = 3
  MaxClock = 2
  MaxFailures = 0
  MaxStops = 0
SPECIFICATION TraktSpec
CHECK_DEADLOCK FALSE
INVARIANTS InsertedInListOrder
