CONSTANTS
  Ids = {i1, i2}
  Workers = {w1, w2}
  Handlers = {h1}
  Queries = {q1, q2}
  Releases = {q1, q2}
  Answers <- OwnAnswer
  NoQuery = NoQuery
  NoRelease = NoRelease
  NoId = NoId
  TempNames = {t1, t2}
  NoTemp = NoTemp
  MaxAttempts = 2
  CheckDuplicates = TRUE
  Operations <- SerialOperations
  ForceChoices = {FALSE}
  MaxStarts = 2
  MaxFaults = 0
  MaxRefused = 0
SPECIFICATION Spec
SYMMETRY SerialSymmetry
CHECK_DEADLOCK FALSE
INVARIANTS SnapshotIsFresh AttemptsBounded FileAnswersQuery EveryFileRecorded
PROPERTIES TerminalRests FollowsLifecycle
