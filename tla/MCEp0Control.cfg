SPECIFICATION FairSpec
CONSTANTS
  Addresses = {1, 2}
  Codings = {c1, c2}
  Default = dflt
  Misread = misread
  Lengths = {9, 255}
  MaxTransfers = 4
  MaxAbandons = 2
  MaxResets = 1
INVARIANTS TypeOK AnswerFitsUnlessLost DataMeetsDataStage IdleMeansSetup ReplyWithinLength
PROPERTIES AddressFollowsStatus CompletedIsCarriedOut TransferEnds
CHECK_DEADLOCK FALSE
