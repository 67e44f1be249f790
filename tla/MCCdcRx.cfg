SPECIFICATION FairSpec
CONSTANTS
  RxSize = 4
  PktMax = 2
  TornResets = FALSE
  MaxBytes = 5
  MaxEvents = 2
INVARIANTS TypeOK BankInSync PacketIsAnnounced
PROPERTIES ImplementsStream HeldIsRead
CHECK_DEADLOCK FALSE
