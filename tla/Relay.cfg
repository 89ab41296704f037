CONSTANTS
  r1 = r1
  r2 = r2
  p1 = p1
  p2 = p2
  Requests = {r1, r2}
  Responses = {p1, p2}
  Answers <- MCAnswers
  Name <- MCName
  HostNames = {"a"}
  Servers = {up, down}
  Up = {up}
  Storing = {p1}
  Life <- MCLife
  MapSize = 1
  SerialMod = 2
  ConvertTTL = 1
  MaxClock = 1
  NULL = NULL
SPECIFICATION FairSpec
INVARIANTS TypeOK OneReply
PROPERTIES RefusalJust RelayedWhenUnknown Served
CHECK_DEADLOCK FALSE
