CONSTANTS
  Targets = 1
  Relays = 2
  Endpoints = 2
  Attempts = 2
  MaxSwitches = 1
  MaxRotations = 2
  MaxForgets = 1
SPECIFICATION FairSpec
INVARIANTS
  NoPlainInPrivate
  LossIsNoAnswer
  RotationIsRidden
PROPERTIES
  CallsEnd
