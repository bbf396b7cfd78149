SPECIFICATION FairSpec
CONSTANTS
  None = None
  Circ = {c1, c2}
  Stream = {s1}
  AS = {a1}
  MaxPending = 1
  MaxUnused = 1
  MaxFailures = 1
  FailureBound = 3
  MaxDirtiness = 1
  IdleTimeout = 1
  FourHopTimeout = 1
  CloseTime = 2
  SocksTimeout = 2
  RetryTimeout = 1
  NewCircuitPeriod = 1
  LogWritable = FALSE
PROPERTIES StreamDecided UnusableFreed BuildingEnds
