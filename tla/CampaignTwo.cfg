SPECIFICATION Spec
CONSTANTS
  l1 = l1
  l2 = l2
  a = a
  b = b
  p = p
  Leads <- TwoLeads
  Campaigns <- Both
  Phones <- OnePhone
  CampaignOf <- Apart
  PhoneOf <- SamePhone
  MaxDials = 2
  MaxAttempts = 1
  DailyCap = 1
  Concurrency = 1
  Outcomes <- OneOutcome
  MaxFaults = 0
  MaxToggles = 0
INVARIANTS
  DialBudget
PROPERTIES
  OptOutIsFinal
CHECK_DEADLOCK FALSE
