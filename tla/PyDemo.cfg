CONSTANTS
  Client = {c1, c2}
  Body <- MCBody
  MaxRequests = 3
  MaxRange = 1
  Lossy = FALSE
SPECIFICATION PySpec
INVARIANTS
  PyTypeOK
  AnswersFit
PROPERTIES
  ControllersFinish
  ErrorEndsSimulation
