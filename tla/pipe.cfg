SPECIFICATION Spec
CONSTANTS
  Procs = {p, q}
  First = p
  NFILE = 2
  NOFILE = 2
  Pages = {g}
  PIPESIZE = 2
  UINT = 4
  MaxN = 2
  Victims = {q}
INVARIANTS PipeLives NoLostWakeup
PROPERTIES ImplementsBytePipe ClosedEndReleases
CHECK_DEADLOCK FALSE
