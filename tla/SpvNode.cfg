CONSTANTS
  Nodes = {"n1", "n2", "n3"}
  Proxies = {"none", "tor"}
  Strikes = 1
  MaxCalls = 3
  MaxFaults = 1
SPECIFICATION FairSpec
INVARIANTS
  ChildHonoursProxy
  NoNodeIsLost
PROPERTIES
  LostNodeIsReplaced
CHECK_DEADLOCK FALSE
