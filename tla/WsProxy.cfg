CONSTANTS
  Conns = {c1, c2, c3}
  Routes = {"direct", "noTor"}
  Refusing = {"noTor"}
  MaxConnections = 2
  MaxPending = 2
SPECIFICATION FairSpec
INVARIANTS
  NothingIsLeaked
  StreamsFollowRoute
PROPERTIES
  StopDrains
