SPECIFICATION FairSpec
CONSTANTS
  Absent = Absent
  Size = 11
  ChunkSize = 2
  PipeSize = 2
  ReadAhead = 1
  PartTasks = 2
  IsLarge = TRUE
  MaxRuns = 3
  MaxFaults = 3
CHECK_DEADLOCK FALSE
INVARIANTS
  TypeOK
  ObjectWholeUnlessMisread
PROPERTIES
  AcceptedIsWhole
  ImplementsUpload
  RunEnds
