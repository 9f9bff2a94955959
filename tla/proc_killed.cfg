SPECIFICATION FairSpec
CONSTANTS
  NPROC = 3
  NCPU = 2
  MaxDirs = 3
  MaxPages = 1
  MaxPid = 4
  Calls = {"fork", "wait", "exit", "kill", "sleep", "killUnused", "nomem"}
 
PROPERTY KilledExits

CHECK_DEADLOCK FALSE
