SPECIFICATION FairSpec
CONSTANTS
  ReliableSize = 2
  SessionQueue = 1
  Unreliable = TRUE
  MaxReliable = 2
  MaxSnapshots = 1
INVARIANT
  AttachSucceeds
CHECK_DEADLOCK FALSE
