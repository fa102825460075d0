SPECIFICATION FairSpec
CONSTANTS
  ReliableSize = 2
  SessionQueue = 2
  Unreliable = FALSE
  MaxReliable = 4
  MaxSnapshots = 4
INVARIANTS
  OvertakenOnce
  DrainedMeansDelivered
PROPERTIES
  ClientHearsMailbox
  ClosedEndsPump
CHECK_DEADLOCK FALSE
