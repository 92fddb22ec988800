CONSTANTS
  Labels = 3
  MaxDelegations = 1
  NameServers = 2
  Links = {"none", "p", "q"}
  Worlds <- MCWorlds
SPECIFICATION FairSpec
INVARIANTS
  GreenIsProven
  AnchorIsTrue
  
  
  LossNeverLies
PROPERTIES
  WalkEnds
CHECK_DEADLOCK FALSE
