SPECIFICATION Spec
CONSTANTS
  p1 = p1  p2 = p2  p3 = p3
  Procs = {p1, p2, p3}
  None = None
  TTL = 2
  Heartbeat = 1
  MaxAttempts = 1
  Backoff <- Short
  ErrorDelay = 1
  Latency = 0
  MaxTime = 5
  MaxFaults = 1
SYMMETRY RunSymmetry
CHECK_DEADLOCK FALSE
INVARIANTS
  MutualExclusion
