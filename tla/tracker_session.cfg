CONSTANTS
  Searches = {s1, s2, s3}
  NoSearch = nobody
  MaxExpiries = 2
  MaxFaults = 1
SPECIFICATION TrackerFairSpec
CHECK_DEADLOCK FALSE
INVARIANTS TrackerTypeOK FlightsAreLed GuestsGetNoAnswer RefusedForAReason
PROPERTIES EverySearchEnds
