SPECIFICATION MCSpec
CONSTANTS
  t1 = t1
  t2 = t2
  a = a
  b = b
  d = d
  Callers = {t1, t2}
  Dialled = {b, d}
  Accepted = {a}
  MaxPeers = 2
  MaxListOps = 2
  Servers = {1, 2}
  ListenClosers = {1, 2}
  MaxAccepts = 2
  Versions = {1, 2, 3}
  FailuresToClose = 2
  HistorySize = 3
  MaxPings = 5
  Stoppers = {1, 2}
  maxAdvertiseFailures = 3
  MaxSends = 6
ACTION_CONSTRAINT Explored
INVARIANTS
  OneDial
  
  HealthFollowsPings
  
PROPERTIES
  CallersReturn
  NoAcceptAfterClose
  ListenerCloses
  HealthStops
CHECK_DEADLOCK FALSE
