SPECIFICATION Spec
CONSTANTS
  NPROC = 4
  NCPU = 2
  MaxDirs = 3
  MaxPages = 2
  MaxPid = 4
  Calls = {"fork", "wait", "clone", "join", "exit", "sbrk", "condsleep", "threadFork", "abandon", "killUnused"}
INVARIANT TableSound
CHECK_DEADLOCK FALSE
