SPECIFICATION Spec
CONSTANTS
  h1 = h1  h2 = h2  t1 = t1  t2 = t2
  Absent = Absent
  TableOf <- TwoTables
  Changes <- ComesAndGoes
  Runs = {1, 2}
  Parts = {h1, h2}
  Files = {1, 2}
  Tables = {t1, t2}
  Active0 = {h1, h2}
  Large = {h2}
  MaxPasses = 2
  MayOverlap = TRUE
  MaxFaults = 0
CHECK_DEADLOCK FALSE
INVARIANTS
  ArchivesWhole
