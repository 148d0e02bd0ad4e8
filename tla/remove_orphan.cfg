CONSTANTS
  Ids = {i1}
  Workers = {w1}
  Handlers = {h1}
  Queries = {q1}
  Releases = {r1}
  Answers <- AnyAnswer
  NoQuery = NoQuery
  NoRelease = NoRelease
  NoId = NoId
  TempNames = {t1}
  NoTemp = NoTemp
  MaxAttempts = 2
  CheckDuplicates = TRUE
  Operations <- RemoveOperations
  ForceChoices = {FALSE}
  MaxStarts = 1
  MaxFaults = 0
  MaxRefused = 0
SPECIFICATION Spec
CHECK_DEADLOCK FALSE
INVARIANTS RemoveTakesTheFile
