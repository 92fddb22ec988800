CONSTANTS
  Labels = 3
  MaxDelegations = 1
  NameServers = 2
  Links = {"none", "p", "q"}
  Worlds <- MCWorlds
SPECIFICATION Spec
INVARIANTS
  UnregisteredIsAFact
CHECK_DEADLOCK FALSE
