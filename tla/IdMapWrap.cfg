\* Four serials out of three: the counter comes round and a serial is reused
\* while the reply to its first holder, twice, is still on the way.
\* Any three workers meet on one cell in every order of their accesses.
CONSTANTS
  Requests = {r1, r2, r3, r4}
  Answered = {r1}
  Copies = {c1, c2}
  Responses <- MCResponses
  Answers <- MCAnswers
  MapSize = 2
  SerialMod = 3
  ConvertTTL = 1
  MaxClock = 2
  NULL = NULL
  Junk = Junk
SPECIFICATION Spec
SYMMETRY WrapSymmetry
CONSTRAINT FewRacers
INVARIANTS TypeOK NoFaultAlone RightClient AtMostOnce NoEarlyDrop NoLeak RaceConfined
PROPERTY ImplementsIdTable
CHECK_DEADLOCK FALSE
