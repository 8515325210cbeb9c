CONSTANTS
  N = 1
  FdLimit = 4
  InitFdMax = 2
  MaxBacklog = 1
  MaxLen = 3
  Faults <- WritableFaults
SPECIFICATION Spec
INVARIANTS TypeOK WriteInterest AnswerExists WriteWindow
CHECK_DEADLOCK FALSE
