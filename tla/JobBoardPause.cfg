SPECIFICATION Spec
CONSTANTS
  j1 = j1
  j2 = j2
  Jobs <- OneJob
  BreakerLimit = 2
  MaxUpsets = 1
PROPERTIES
  PauseHolds
CHECK_DEADLOCK FALSE
