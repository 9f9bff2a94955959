SPECIFICATION Spec
CONSTANTS
  NPROC = 4
  NCPU = 2
  MaxDirs = 3
  MaxPages = 2
  MaxPid = 4
  Calls = {"fork", "wait", "clone", "join", "exit", "sbrk", "exec", "nomem"}
INVARIANT MemorySound
PROPERTY ReapsItsOwn
CHECK_DEADLOCK FALSE
