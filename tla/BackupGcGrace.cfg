SPECIFICATION FairSpec
CONSTANTS
  b1 = b1  b2 = b2  h1 = h1  h2 = h2  g1 = g1  g2 = g2  r1 = r1
  Hashes = {h1}
  Names = {1}
  Backups = {b1, b2}
  Replicas = {r1}
  NoReplica = NoReplica
  Absent = Absent
  Replica <- Identity
  MaxTime = 2
  NameOf <- SameName
  RunReplica <- SameReplica
  PartLists = {{h1}}
  Large = {}
  MaxBackup = 0
  LastStart = 1
  GcRuns = {g1, g2}
  Kind <- RmAndAll
  Grace = 1
  BatchSize = 2
  MaxPlan = 0
  MaxFaults = 2
CHECK_DEADLOCK FALSE
INVARIANTS
  GraceProtectsNewBlobs
PROPERTIES
  OrphansCollected
