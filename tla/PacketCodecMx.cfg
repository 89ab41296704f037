\* MX answers of the relay.
CONSTANTS
  QNames <- MCQNames
  Targets <- MCTargets
  Types = {15}
  MaxQuests = 1
  MaxAnswers = 2
  BUFFER_SIZE = 1024
  Addition = 300
SPECIFICATION Spec
INVARIANT MxSupported
CHECK_DEADLOCK FALSE
