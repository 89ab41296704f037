\* Up to two questions, two answers, chains of pointers.
CONSTANTS
  QNames <- MCQNames
  Targets <- MCTargets
  Types = {1, 5, 15}
  MaxQuests = 2
  MaxAnswers = 2
  BUFFER_SIZE = 1024
  Addition = 300
SPECIFICATION Spec
INVARIANTS TypeOK AnswersReadable ParsesBack
CHECK_DEADLOCK FALSE
