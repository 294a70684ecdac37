CONSTANTS
  Client = {c1}
  Body <- MCBody
  MaxRequests = 1
  Lossy = FALSE
SPECIFICATION Spec
INVARIANT ReceiveBytesDelivers
