CONSTANTS
  Clients = {1, 2, 3}
  Starts = {"s1", "s2"}
  Supervisor = "sup"
  Strikes = 2
  MaxCalls = 3
  MaxFaults = 1
  MaxProcs = 2
  MaxStale = 1
SPECIFICATION FairSpec
INVARIANTS
  OneClient
  DeadlineCoversWait
PROPERTIES
  OfferGoesWithItsClient
  LostRouteReturns
  KeepsRoutePromise
CHECK_DEADLOCK FALSE
