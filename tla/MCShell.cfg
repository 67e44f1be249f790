SPECIFICATION Spec
CONSTANTS
  Typed = {"a", "cr", "ff"}
  None = None
  Registers = 2
  SpiTimeout = 1
  Space = 16
  Columns = 4
  WordBytes = 2
  Addresses = {2, 13}
  Counts = {1, 3, 7, 14}
INVARIANTS TypeOK RawWordIsWhole RawReadsWhatWasAsked
PROPERTIES OnlyEchoIsSuppressed ImplementsDump CommandEnds
CHECK_DEADLOCK FALSE
