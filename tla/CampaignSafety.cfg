SPECIFICATION Spec
CONSTANTS
  l1 = l1
  l2 = l2
  a = a
  b = b
  p = p
  Leads <- OneLead
  Campaigns <- OneCampaign
  Phones <- OnePhone
  CampaignOf <- Together
  PhoneOf <- SamePhone
  MaxDials = 2
  MaxAttempts = 2
  DailyCap = 1
  Concurrency = 1
  Outcomes <- OneOutcome
  MaxFaults = 1
  MaxToggles = 1
INVARIANTS
  TypeOK
  NoDoubleRing
  DailyCapHeld
PROPERTIES
  KeepsPromise
CHECK_DEADLOCK FALSE
