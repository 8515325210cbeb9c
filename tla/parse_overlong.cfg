CONSTANTS
  Messages <- MCOverlong
  Lower <- MCLower
  MaxUri = 8
  Overtaken = {}
SPECIFICATION Spec
INVARIANTS ParsedAsSent
