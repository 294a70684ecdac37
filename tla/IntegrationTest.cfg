CONSTANTS
  Client = {t1, t2, t3}
  Body <- MCBody
  MaxRequests = 3
  Lossy = TRUE
SPECIFICATION Spec
INVARIANTS
  TypeOK
  AssertionsHold
  ErrorsStayInTheirTest
PROPERTY TestsFinish
CHECK_DEADLOCK FALSE
