SPECIFICATION RetrySpec
CONSTANTS
  w1 = w1
  w2 = w2
  p1 = p1
  nopath = nopath
  r1 = r1
  r2 = r2
  MaxId = 2
  MaxStamp = 0
  StaleTimeout = 0
  Reported <- OverReport
  Paths <- OnePath
  NoPath = nopath
  Workers <- OneWorker
  WorkersEnabled = TRUE
  Faults = TRUE
  MaxStops = 1
  Requests <- OneRequest
INVARIANTS LibraryTypeOK
PROPERTIES OnlyDoneRowsDeleted FilesGoWithTheirRows ReusedIdsAreFree DeletionCompletes
