SPECIFICATION Spec
CONSTANTS
  b1 = b1  b2 = b2  h1 = h1  h2 = h2  g1 = g1  g2 = g2  r1 = r1
  Hashes = {h1, h2}
  Names = {1, 2}
  Backups = {b1, b2}
  Replicas = {r1}
  NoReplica = NoReplica
  Absent = Absent
  Replica <- Identity
  MaxTime = 0
  NameOf <- OwnNames
  RunReplica <- SameReplica
  PartLists = {{h1}, {h2}}
  Large = {h1}
  MaxBackup = 1
  LastStart = 0
  GcRuns = {g1, g2}
  Kind <- RmAndPrune
  Grace = 2
  BatchSize = 2
  MaxPlan = 0
  MaxFaults = 1
CHECK_DEADLOCK FALSE
INVARIANTS
  TypeOK
  VouchedManifestsComplete
