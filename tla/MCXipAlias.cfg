SPECIFICATION FairSpec
CONSTANTS
  NumLines = 2
  Pages = {0, 1, 2, 3, 4}
  NoPage = NoPage
  AliasedOperands = TRUE
  DmaFails = FALSE
  MaxInterrupts = 0
PROPERTIES EveryInstructionRetires
