SPECIFICATION Spec
CONSTANTS
  j1 = j1
  Jobs <- OneJob
  Owner <- Alone
  MaxRequests = 1
  MaxUpsets = 0
INVARIANTS
  RuleAccepts
CHECK_DEADLOCK FALSE
