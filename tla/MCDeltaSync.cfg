SPECIFICATION Spec
CONSTANTS
  Step = 4
  MaxWire = 100
  Ids = {1, 2, 3, 4}
  Views <- SomeViews
  Ring = 2
  Keep = 3
  SnapshotRate = 2
  TickRate = 3
  MaxTick = 5
  MaxInputs = 1
INVARIANTS
  TypeOK
  BasesSuffice
PROPERTY
  ClientMirrorsServer
CHECK_DEADLOCK FALSE
