SPECIFICATION FairSpec
CHECK_DEADLOCK FALSE
CONSTANTS
  i1 = i1
  o1 = o1
  p1 = p1
  r1 = r1
  c1 = c1
  InCalls = {}
  OutCalls = {o1}
  Pings = {}
  RelayCalls = {}
  Closers = {}
  SendBufferSize = 1
  Events = {"writeError"}
PROPERTIES
  SocketCloses
