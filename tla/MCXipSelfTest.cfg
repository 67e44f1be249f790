SPECIFICATION BootSpec
CONSTANTS
  NumLines = 8
  Pages = {0, 1, 2, 4, 5, 8, 16}
  NoPage = NoPage
  AliasedOperands = FALSE
  DmaFails = TRUE
  MaxInterrupts = 0
  Images = {"test"}
  Rounds = 3
  ProgramPages = {0, 1, 8, 16}
  DataFirst = 1
  DataLast = 2
INVARIANTS PassedMeansNoneFailed
CHECK_DEADLOCK FALSE
