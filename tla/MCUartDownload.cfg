SPECIFICATION FairSpec
CONSTANTS
  Blocks = 2
  CounterMod = 4
  MaxTries = 1
  SyncTries = 2
  Space = 2
  MaxLost = 3
  MaxLate = 2
INVARIANTS TypeOK FailsForCause
PROPERTIES ImplementsTransfer UploadEnds
CHECK_DEADLOCK FALSE
