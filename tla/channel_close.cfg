SPECIFICATION FairSpec
CONSTANTS
  c1 = c1
  c2 = c2
  k1 = k1
  k2 = k2
  w1 = w1
  Conns = {c1, c2}
  Outbound = {c1}
  Closers = {k1, k2}
  Workers = {w1}
  IdleCheck = TRUE
ACTION_CONSTRAINT Explored
INVARIANTS
  Tracked
  ClosedAfterConns
PROPERTIES
  ConnsDrain
CHECK_DEADLOCK FALSE
