CONSTANTS
  Ids = {i1, i2}
  Workers = {w1}
  Handlers = {h1}
  Queries = {q1}
  Releases = {r1}
  Answers <- AnyAnswer
  NoQuery = NoQuery
  NoRelease = NoRelease
  NoId = NoId
  TempNames = {t1}
  NoTemp = NoTemp
  MaxAttempts = 2
  CheckDuplicates = TRUE
  Operations <- LiveOperations
  ForceChoices = {TRUE, FALSE}
  MaxStarts = 2
  MaxFaults = 0
  MaxRefused = 0
SPECIFICATION FairSpec
CHECK_DEADLOCK FALSE
PROPERTIES EventuallySettles
