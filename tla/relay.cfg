SPECIFICATION RelayFairSpec
CONSTANTS
  k1 = k1
  Calls = {k1}
  SendCap = 1
  MaxTombs = 0
  MaxFrags = 2
ACTION_CONSTRAINT CloseMatters
INVARIANTS
  PendingBalanced
  EndOnce
  TimerSafe
  TimeoutExcludesResponse
PROPERTIES
  RelayDrains
CHECK_DEADLOCK FALSE
