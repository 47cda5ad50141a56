SPECIFICATION Spec
CONSTANTS
  b1 = b1  b2 = b2  h1 = h1  h2 = h2  g1 = g1  g2 = g2  r1 = r1
  Hashes = {h1}
  Names = {1}
  Backups = {b1}
  Replicas = {r1}
  NoReplica = NoReplica
  Absent = Absent
  Replica <- Identity
  MaxTime = 0
  NameOf <- SameName
  RunReplica <- SameReplica
  PartLists = {{h1}}
  Large = {}
  MaxBackup = 1
  LastStart = 9
  GcRuns = {g1}
  Kind <- Prune
  Grace = 2
  BatchSize = 2
  MaxPlan = 0
  MaxFaults = 1
CHECK_DEADLOCK FALSE
PROPERTIES
  ReferencedBlobsKept
