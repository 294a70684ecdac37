CONSTANTS
  Client = {c1}
  Body <- MCBody
  Size <- MCSize
  MaxRequests = 2
  Lossy = FALSE
SPECIFICATION PySpec
INVARIANT NoMissedChange
