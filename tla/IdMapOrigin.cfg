\* The contract of queryMap against every interleaving of two workers on one cell.
CONSTANTS
  Requests = {r1, r2}
  Answered = {r1}
  Copies = {1}
  Responses <- MCResponses
  Answers <- MCAnswers
  MapSize = 1
  SerialMod = 3
  ConvertTTL = 1
  MaxClock = 1
  NULL = NULL
  Junk = Junk
SPECIFICATION Spec
INVARIANT SuccessIsOrigin
CHECK_DEADLOCK FALSE
