SPECIFICATION FairSpec
CONSTANTS
  k1 = k1  k2 = k2  k3 = k3  k4 = k4  s1 = s1  s2 = s2
  Keys = {k1, k2, k3, k4}
  Shard <- TwoShards
  BatchSize = 2
  Concurrency = 2
  FallbackConcurrency = 1
  MaxAttempts = 2
  MayUpload = {k1}
  MaxFaults = 2
CHECK_DEADLOCK FALSE
INVARIANTS
  TypeOK
  CountsAddUp
  ErrorsCoverWhatStays
  DropLeavesFew
PROPERTIES
  ImplementsDeletion
  BulkEnds
