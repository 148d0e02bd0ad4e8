CONSTANTS
  Ids = {i1}
  Workers = {w1, w2}
  Handlers = {h1, h2}
  Queries = {q1}
  Releases = {r1, r2}
  Answers <- AnyAnswer
  NoQuery = NoQuery
  NoRelease = NoRelease
  NoId = NoId
  TempNames = {t1, t2}
  NoTemp = NoTemp
  MaxAttempts = 2
  CheckDuplicates = TRUE
  Operations <- RaceOperations
  ForceChoices = {FALSE}
  MaxStarts = 2
  MaxFaults = 1
  MaxRefused = 1
SPECIFICATION Spec
SYMMETRY RaceSymmetry
CHECK_DEADLOCK FALSE
INVARIANTS TypeOK InFlightHasWorker DownloadedIsOnDisk NoStaleTemp HandsAgree
