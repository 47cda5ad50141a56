SPECIFICATION FairSpec
CONSTANTS
  b1 = b1  h1 = h1  h2 = h2  g1 = g1  g2 = g2  r1 = r1
  Hashes = {h1, h2}
  Names = {1, 2}
  Backups = {b1}
  Replicas = {r1}
  NoReplica = NoReplica
  Absent = Absent
  Replica <- Live
  MaxTime = 3
  GcRuns = {g1}
  Kind <- Prune
  Grace = 0
  BatchSize = 1
  MaxPlan = 0
  RetainAll = 0
  RetainDaily = 2
  NoDaily = NoDaily
  Day = 2
  MaxWait = 1
  DownloadConcurrency = 2
  MaxRestores = 1
  Content <- SharedPart
  MaxBackup = 0
  MaxFaults = 1
CHECK_DEADLOCK FALSE
INVARIANTS
  TypeOK
  RecentKept
  DayKept
  RestoreFailsForAReason
  RestoredExactly
  AttachedTogether
PROPERTIES
  RestoreEnds
