CONSTANTS
  Hosts = {"w3", "alice.w3"}
  Under <- MCUnder
  Lookups = {"l1", "l2"}
  CacheMax = 1
  Ttl = 1
  Attempts = 3
  MaxVersion = 1
SPECIFICATION FairSpec
INVARIANTS
  NothingPreForget
PROPERTIES
  KeepsPromise
  EveryLookupEnds
