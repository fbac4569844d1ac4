SPECIFICATION FairSpec
CONSTANTS
  l1 = l1
  l2 = l2
  a = a
  b = b
  p = p
  Leads <- OneLead
  Campaigns <- OneCampaign
  Phones <- OnePhone
  CampaignOf <- Together
  PhoneOf <- SamePhone
  MaxDials = 2
  MaxAttempts = 2
  DailyCap = 2
  Concurrency = 1
  Outcomes <- FewOutcomes
  MaxFaults = 0
  MaxToggles = 0
PROPERTIES
  CallingResolves
CHECK_DEADLOCK FALSE
