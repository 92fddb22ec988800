CONSTANTS
  Sessions = 2
  FailClosed = TRUE
  MaxRequests = 2
  MaxPasses = 2
SPECIFICATION Spec
PROPERTIES
  PrivateFromThatInstant
