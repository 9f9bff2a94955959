SPECIFICATION Spec
CONSTANTS
  Procs = {p, q}
  NBUF = 2
  Sectors = {1, 2, 3}
  Values = {0, 1}
  Disk0 <- MCDisk
  Blank = 0
  Nest <- MCNest
  Nobody = Nobody
  MaxWrites = 1
  MaxErrors = 1
INVARIANTS BuffersSound
PROPERTIES ImplementsBlockStore IoEnds
CHECK_DEADLOCK FALSE
