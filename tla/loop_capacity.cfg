CONSTANTS
  N = 1
  FdLimit = 6
  InitFdMax = 3
  MaxBacklog = 1
  MaxLen = 1
  Faults <- LookupFaults
SPECIFICATION Spec
INVARIANTS WithinShare LowDescriptors Watched
PROPERTIES ClosedIdleIsTold PendingAnswerKept ExchangeKept
CHECK_DEADLOCK FALSE
CONSTRAINT FewTroubles
