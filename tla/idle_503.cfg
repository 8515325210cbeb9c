CONSTANTS
  N = 1
  FdLimit = 4
  InitFdMax = 9
  MaxBacklog = 1
  MaxLen = 1
  Faults <- SelectFaults
SPECIFICATION Spec
PROPERTIES ClosedIdleIsTold
CHECK_DEADLOCK FALSE
