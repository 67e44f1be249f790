SPECIFICATION ReadingHostSpec
CONSTANTS
  TxSize = 4
  PktMax = 2
  TxTimeout = 2
  TornResets = FALSE
  MaxWrite = 4
  MaxBytes = 6
  MaxEvents = 1
INVARIANTS TypeOK ClaimIsExclusive
PROPERTIES ImplementsStream AcceptedIsDelivered
CHECK_DEADLOCK FALSE
