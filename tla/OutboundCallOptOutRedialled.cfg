SPECIFICATION Spec
CONSTANTS
  c1 = c1
  c2 = c2
  w1 = w1
  w2 = w2
  Calls <- OneCall
  MaxDials = 3
  MaxAttempts = 3
  MinAttempts = 3
  Talks <- AllTalks
  MaxCrashes = 0
  MaxRequeues = 0
  MaxStale = 1
  Cancels = FALSE
  Losses = FALSE
  Workers <- OneWorker
  Clerks <- OneWorker
  Robots <- OneWorker
PROPERTIES
  OptOutNeverRedialled
CHECK_DEADLOCK FALSE
