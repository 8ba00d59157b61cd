SPECIFICATION Spec
CONSTANTS
  w1 = w1
  w2 = w2
  p1 = p1
  nopath = nopath
  MaxId = 2
  MaxStamp = 0
  StaleTimeout = 1
  Reported <- OverReport
  Paths <- OnePath
  NoPath = nopath
  Workers <- TwoWorkers
  WorkersEnabled = TRUE
  Faults = FALSE
  MaxStops = 0
INVARIANTS OnlyLostWorkersAreReaped
