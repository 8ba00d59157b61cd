SPECIFICATION LiveSpec
CONSTANTS
  w1 = w1
  w2 = w2
  p1 = p1
  nopath = nopath
  MaxId = 2
  MaxStamp = 0
  StaleTimeout = 1
  Reported <- SomeReport
  Paths <- OnePath
  NoPath = nopath
  Workers <- TwoWorkers
  WorkersEnabled = TRUE
  Faults = TRUE
  MaxStops = 1
INVARIANTS NothingStuck
PROPERTIES NoClaimForEver CancelEndsClaim EveryJobEnds
