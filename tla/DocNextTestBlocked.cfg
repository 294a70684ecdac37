CONSTANTS
  Client = {t1, t2}
  Body <- MCBody
  MaxRequests = 3
  Lossy = FALSE
SPECIFICATION Spec
PROPERTY NextTestIsNotBlocked
CHECK_DEADLOCK FALSE
