SPECIFICATION Spec
CONSTANTS
  c1 = c1
  c2 = c2
  w1 = w1
  w2 = w2
  Calls <- OneCall
  MaxDials = 3
  MaxAttempts = 2
  MinAttempts = 1
  Talks <- FewTalks
  MaxCrashes = 1
  MaxRequeues = 1
  MaxStale = 1
  Cancels = FALSE
  Losses = TRUE
  Workers <- TwoWorkers
  Clerks <- TwoWorkers
  Robots <- TwoWorkers
INVARIANTS
  TypeOK
  DialCeiling
  SingleFlight
  RetryFailedIdle
PROPERTIES
  AlertIsLast
  KeepsPromise
CONSTRAINT
  OneUpset
CHECK_DEADLOCK FALSE
SYMMETRY
  Workmen
