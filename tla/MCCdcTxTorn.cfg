SPECIFICATION CodeSpec
CONSTANTS
  TxSize = 4
  PktMax = 2
  TxTimeout = 2
  TornResets = TRUE
  MaxWrite = 3
  MaxBytes = 4
  MaxEvents = 2
CHECK_DEADLOCK FALSE
INVARIANTS BusyIsOwned NoLostWakeup WindowIsSelected
PROPERTIES WriteReturns
VIEW Control
