CONSTANTS
  Conns = {c1, c2}
  Paths <- MCPaths
  Above <- MCAbove
  Location <- MCLocation
  CgiName <- MCCgiName
  ProgramOf <- MCProgramOf
  Php <- MCPhp
  IndexPages <- MCIndexPages
  Htpasswd = TRUE
  Size <- MCSize
  InitTree <- MCTree
  Requests <- MCRequests
SPECIFICATION Spec
INVARIANTS TypeOK StoredAsTold CgiAnswerIsOwn ErrorPageIsOwn Framed
PROPERTIES TreeGuarded
CHECK_DEADLOCK FALSE
SYMMETRY Symmetry
CONSTRAINT OneLeftover
