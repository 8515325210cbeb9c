CONSTANTS
  Files <- MCTwice
  BUFFER_SIZE_GNL = 64
  Atoi <- MCAtoi
  Names <- MCNames
  Uris <- MCUris
SPECIFICATION StartSpec
INVARIANTS RepeatedRefused
