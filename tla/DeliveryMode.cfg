CONSTANTS
  Sessions = 2
  FailClosed = TRUE
  MaxRequests = 3
  MaxPasses = 2
SPECIFICATION FairSpec
INVARIANTS
  TorMeansRouted
  DirectOnlyUntilBlocked
  Agreement
PROPERTIES
  PrivateSettles
