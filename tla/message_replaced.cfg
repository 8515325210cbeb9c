CONSTANTS
  N = 1
  FdLimit = 4
  InitFdMax = 9
  MaxBacklog = 1
  MaxLen = 2
  Faults <- TalkativeFaults
SPECIFICATION Spec
PROPERTIES MessageSentWhole
