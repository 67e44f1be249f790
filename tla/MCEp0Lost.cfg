SPECIFICATION Spec
CONSTANTS
  Addresses = {1, 2}
  Codings = {c1, c2}
  Default = dflt
  Misread = misread
  Lengths = {9, 255}
  MaxTransfers = 3
  MaxAbandons = 1
  MaxResets = 0
INVARIANTS AnswerFitsRequest
CHECK_DEADLOCK FALSE
