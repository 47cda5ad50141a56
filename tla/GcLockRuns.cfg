SPECIFICATION Spec
CONSTANTS
  p1 = p1  p2 = p2  p3 = p3
  Procs = {p1, p2}
  None = None
  TTL = 3
  Heartbeat = 1
  MaxAttempts = 10
  Backoff <- Doubling
  ErrorDelay = 0
  Latency = 1
  MaxTime = 6
  MaxFaults = 1
SYMMETRY RunSymmetry
CHECK_DEADLOCK FALSE
INVARIANTS
  TypeOK
  MutexWithoutFaults
  TheftNoticedInTime
  LoneRunNeverGivesUp
