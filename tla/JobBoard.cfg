SPECIFICATION FairSpec
CONSTANTS
  j1 = j1
  j2 = j2
  Jobs <- OneJob
  BreakerLimit = 2
  MaxUpsets = 2
INVARIANTS
  TypeOK
  OneCycle
  AnnouncedOnce
  CompletionVerified
PROPERTIES
  NeverArchivedWhileListed
  BoardConverges
CHECK_DEADLOCK FALSE
