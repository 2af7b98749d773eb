SPECIFICATION MCSpec
CONSTANTS
  MaxLen = 2
  Room = 5
  NetCap = 1
  ToEOF = TRUE
  MaxAttempts = 3
INVARIANTS
  
  ErrorsJustified
  
  AtMostOnce
PROPERTIES
  ResponseRead
  CallReturns
CHECK_DEADLOCK FALSE
