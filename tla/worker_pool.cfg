CONSTANTS
  Priorities <- EqualPriorities
  BaseSeconds = 2
  MaxBackoffSeconds = 3
  Requests = {r1, r2}
  Workers = {w1, w2}
  Handlers = {h1}
  Syncer = syncer
  NoRequest = NoRequest
  MaxAttempts = 3
  Recovered = {r1}
  Pages <- SmallPages
  MaxSubmits = 1
  MaxFaults = 1
SPECIFICATION PoolFairSpec
CHECK_DEADLOCK FALSE
INVARIANTS PoolTypeOK NoLostWakeup WinnerIsBest ClosedForAReason DelaysDouble
PROPERTIES WorkIsTaken StopsWhenTold
