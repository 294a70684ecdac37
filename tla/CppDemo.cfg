CONSTANTS
  Client = {c1, c2}
  Body <- MCBody
  MaxRequests = 3
  MaxRange = 1
  Lossy = FALSE
SPECIFICATION Spec
INVARIANTS
  TypeOK
  AnswersFit
PROPERTIES
  ControllersFinish
  ErrorEndsSimulation
