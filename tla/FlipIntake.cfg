SPECIFICATION FairSpec
CONSTANTS
  j1 = j1
  j2 = j2
  Jobs <- OneJob
  TickEnabled = TRUE
  MaxUpsets = 2
INVARIANTS
  TypeOK
  OneCallPerJob
  TrailBeforeCall
  OneLogPerCall
  NeverBeforeOptIn
PROPERTIES
  JobIsServed
CHECK_DEADLOCK FALSE
