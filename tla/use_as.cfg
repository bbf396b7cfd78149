SPECIFICATION PathSpec
CONSTANTS
  None = None
  Circ = {c1, c2}
  Stream = {s1, s2}
  AS = {a1, a2}
  MaxPending = 1
  MaxUnused = 1
  MaxFailures = 1
  FailureBound = 3
  MaxDirtiness = 1
  IdleTimeout = 1
  FourHopTimeout = 1
  CloseTime = 2
  SocksTimeout = 2
  RetryTimeout = 1
  NewCircuitPeriod = 1
  LogWritable = FALSE
INVARIANT PathMatchesDestination
