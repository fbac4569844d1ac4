SPECIFICATION FairSpec
CONSTANTS
  c1 = c1
  c2 = c2
  w1 = w1
  w2 = w2
  Calls <- OneCall
  MaxDials = 2
  MaxAttempts = 1
  MinAttempts = 2
  Talks <- FewTalks
  MaxCrashes = 0
  MaxRequeues = 1
  MaxStale = 1
  Cancels = TRUE
  Losses = TRUE
  Workers <- TwoWorkers
  Clerks <- OtherWorker
  Robots <- OneWorker
PROPERTIES
  EventuallySettled
VIEW
  Unhistoried
CHECK_DEADLOCK FALSE
