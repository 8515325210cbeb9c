CONSTANTS
  N = 1
  FdLimit = 4
  InitFdMax = 2
  MaxBacklog = 1
  MaxLen = 1
  Faults <- NoFaults
SPECIFICATION FairSpec
PROPERTIES IdleClosed
