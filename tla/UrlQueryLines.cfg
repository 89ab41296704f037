CONSTANTS
  Workers = {1}
  Packet <- MCPacket
  Names <- MCNames
  Types <- MCTypes
  A = 1
  AAAA = 28
  TypeMod = 256
  File <- MCFile
  Terminated = FALSE
  Blank = Blank
  Heard <- MCHeard
  HostLife = 1
  Lifetimes = {0}
  TtlMod = 1000
  MaxClock = 1
SPECIFICATION Spec
INVARIANT LinesLoaded
CHECK_DEADLOCK FALSE
