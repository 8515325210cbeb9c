CONSTANTS
  Messages <- MCPieces
  Lower <- MCLower
  MaxUri = 8
  Overtaken <- MCOvertaken
SPECIFICATION Spec
INVARIANTS TypeOK ParsedAsSent RejectedAsTold Drained PiecesDoNotMatter
PROPERTIES RejectedStays
