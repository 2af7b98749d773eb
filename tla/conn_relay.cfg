SPECIFICATION Spec
CHECK_DEADLOCK FALSE
CONSTANTS
  i1 = i1
  o1 = o1
  p1 = p1
  r1 = r1
  c1 = c1
  InCalls = {}
  OutCalls = {}
  Pings = {p1}
  RelayCalls = {r1}
  Closers = {}
  SendBufferSize = 1
  Events = {"errorFrame", "pingReq"}
INVARIANTS
  
  RelayCannotBePending
  IInv
