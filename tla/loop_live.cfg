CONSTANTS
  N = 2
  FdLimit = 5
  InitFdMax = 4
  MaxBacklog = 1
  MaxLen = 3
  Faults <- NoFaults
SPECIFICATION FairSpec
INVARIANTS Ownership NoStaleReadiness
PROPERTIES MessageSentWhole ImplementsExchange Answered IdleReaped
