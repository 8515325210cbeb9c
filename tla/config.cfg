CONSTANTS
  Files <- MCFiles
  BUFFER_SIZE_GNL = 4
  Atoi <- MCAtoi
  Names <- MCNames
  Uris <- MCUris
SPECIFICATION StartSpec
INVARIANTS TypeOK LinesAsRead ReadAsWritten DamageContained ServedAsWritten TablesSound OverlapRefused NoneLost
