SPECIFICATION PollingSpec
CONSTANTS
  nopath = nopath
  MaxId = 2
  MaxStamp = 1
  StaleTimeout = 0
  Reported <- NoReports
  Paths <- NoPaths
  NoPath = nopath
  Limit = 1
INVARIANTS PageTypeOK AnnouncedOnce RememberedIsDone
PROPERTIES LastIsSeen ToastsAreNews
