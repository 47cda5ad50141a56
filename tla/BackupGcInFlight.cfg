SPECIFICATION Spec
CONSTANTS
  b1 = b1  b2 = b2  h1 = h1  h2 = h2  g1 = g1  g2 = g2  r1 = r1
  Hashes = {h1}
  Names = {1, 2}
  Backups = {b1, b2}
  Replicas = {r1}
  NoReplica = NoReplica
  Absent = Absent
  Replica <- Identity
  MaxTime = 3
  NameOf <- OwnNames
  RunReplica <- SameReplica
  PartLists = {{h1}}
  Large = {}
  MaxBackup = 1
  LastStart = 3
  GcRuns = {g1}
  Kind <- All
  Grace = 2
  BatchSize = 2
  MaxPlan = 0
  MaxFaults = 1
CHECK_DEADLOCK FALSE
INVARIANTS
  InFlightUploadsKept
