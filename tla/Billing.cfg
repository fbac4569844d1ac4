SPECIFICATION FairSpec
CONSTANTS
  MaxEvents = 2
  Pack = 1
  MaxJobs = 2
  MaxUpsets = 2
INVARIANTS
  TypeOK
  CreditedOnce
  CreditsBalance
  GateFollowsBalance
  SubscriptionFollows
PROPERTIES
  ActsAtomically
  PaidIsCredited
CHECK_DEADLOCK FALSE
