CONSTANTS
  Client = {c1, c2}
  Body <- MCBody
  Size <- MCSize
  MaxRequests = 1
  Lossy = TRUE
SPECIFICATION PySpec
SYMMETRY Symmetry
INVARIANTS
  PyTypeOK
  NoFalseAlarm
PROPERTIES
  PyStrandedOnlyByLoss
  RefinesRoundTrip
