SPECIFICATION LateSpec
CONSTANTS
  w1 = w1
  w2 = w2
  p1 = p1
  nopath = nopath
  MaxId = 2
  MaxStamp = 1
  StaleTimeout = 1
  Reported <- TwoReports
  Paths <- OnePath
  NoPath = nopath
  Workers <- TwoWorkers
  WorkersEnabled = TRUE
  Faults = TRUE
  MaxStops = 1
SYMMETRY SymWorkers
INVARIANTS TypeOK ExclusiveClaim RowsConsistent DeathStrandsOneJob AtMostOneLateWrite
PROPERTIES TerminalFrozen KeepsLifecycle RequestSurvivesRestart
