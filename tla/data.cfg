SPECIFICATION MCSpec
CONSTANTS
  Base = 8
  FrameHeaderSize = 2
  TtlLen = 1
  SpanLen = 1
  CsumLen = 1
  MaxHeaders = 2
  MaxTimeout = 3
  MaxFields = 3
  p1 = p1
  p2 = p2
  p3 = p3
  HostPorts = {p1, p2, p3}
  HostOf <- MCHostOf
  MaxOrder = 3
  MaxPending = 0
  Updaters = {1}
INVARIANTS
  
  HopIntact
  
  StructsReadBack
  HeapConsistent
  ChosenIsBest
SYMMETRY SameHost
CHECK_DEADLOCK FALSE
