SPECIFICATION Spec
CONSTANTS
  Absent = Absent
  Size = 5
  ChunkSize = 2
  PipeSize = 2
  ReadAhead = 1
  PartTasks = 2
  IsLarge = TRUE
  MaxRuns = 2
  MaxFaults = 1
CHECK_DEADLOCK FALSE
INVARIANTS
  ReferencedIsWhole
