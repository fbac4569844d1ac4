SPECIFICATION FairSpec
CONSTANTS
  j1 = j1
  Jobs <- OneJob
  Owner <- Alone
  MaxRequests = 2
  MaxUpsets = 3
INVARIANTS
  TypeOK
  AskedOnce
  AcceptanceIsRecorded
  DeclinedNotAccepted
PROPERTIES
  AnswersActAtomically
  RequestsClose
  FlaggedIsAsked
CHECK_DEADLOCK FALSE
