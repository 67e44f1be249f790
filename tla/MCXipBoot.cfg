SPECIFICATION FairBootSpec
CONSTANTS
  NumLines = 8
  Pages = {0, 1, 2, 4, 5, 8, 16}
  NoPage = NoPage
  AliasedOperands = FALSE
  DmaFails = FALSE
  MaxInterrupts = 2
  Images = {"main", "jump", "test", "dump"}
  Rounds = 3
  ProgramPages = {0, 1, 8, 16}
  DataFirst = 1
  DataLast = 2
INVARIANTS BootTypeOK TagsAreHonest MagicStopsBoot HandlerIsThere VerifierTests
PROPERTIES ImplementsWindow EveryInstructionRetires BootDecides
CHECK_DEADLOCK FALSE
