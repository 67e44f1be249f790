SPECIFICATION Spec
CONSTANTS
  RxSize = 4
  PktMax = 2
  TornResets = TRUE
  MaxBytes = 4
  MaxEvents = 1
INVARIANTS EmptyUntilConfigured
CHECK_DEADLOCK FALSE
