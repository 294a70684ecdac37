CONSTANTS
  Client = {c1, c2}
  Body <- MCBody
  MaxRequests = 2
  Lossy = TRUE
SPECIFICATION Spec
SYMMETRY Symmetry
INVARIANTS
  TypeOK
  FlagTracksSocket
  OneOutstanding
PROPERTIES
  AdviceIsSound
  StrandedOnlyByLoss
  RefinesRoundTrip
