CONSTANTS
  Searches = {s1, s2}
  NoSearch = nobody
  MaxExpiries = 1
  MaxFaults = 0
SPECIFICATION TrackerSpec
CHECK_DEADLOCK FALSE
INVARIANTS OneLoginPerExpiry
