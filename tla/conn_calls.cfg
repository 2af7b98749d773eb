SPECIFICATION Spec
CHECK_DEADLOCK FALSE
CONSTANTS
  i1 = i1
  o1 = o1
  p1 = p1
  r1 = r1
  c1 = c1
  InCalls = {i1}
  OutCalls = {o1}
  Pings = {}
  RelayCalls = {}
  Closers = {c1}
  SendBufferSize = 1
  Events = {"badResponse"}
CONSTRAINT OneDeadline
INVARIANTS
  Drained
  NoFrameStranded
PROPERTIES
  ImplementsLifecycle
