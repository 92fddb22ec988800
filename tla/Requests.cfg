CONSTANTS
  Rpcs = 2
  Gateways = 2
  MaxLookups = 2
  MaxRedirects = 2
  Relays = {r1, r2}
  Events = {e1, e2}
  Limit = 2
  MaxFrames = 3
  ArHosts = 2
  Sites = {s1, s2}
  BridgeQuestions = 3
  MaxRows = 2
  Zones <- MCZones
  ZoneQuestions <- MCQuestions
  Hash <- MCHash
  NameServers = 3
  Ids = {i1, i2}
  MaxTexts = 3
  MaxLinks = 2
  Count = 3
  PerWindow = 2
  MaxReads = 1
  MaxGC = 1
SPECIFICATION FairSpec
INVARIANTS
  OneNamespacePerHost
  ContractsAreReadWhole
  ShownIsFetched
  VerifiedIsSigned
  EvidenceIsLatest
  DenialIsTrueAbove
  HonestDenialIsProven
  AcceptedIsPublished
  OwnRootFirst
  OrderDecidesNothing
  BeliefsExpire
PROPERTIES
  EveryRequestEnds
CHECK_DEADLOCK FALSE
