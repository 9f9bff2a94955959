SPECIFICATION Spec
CONSTANTS
  p = p
  q = q
  Procs = {p, q}
  NInodes = 5
  Names = {"a", "b"}
  Calls <- MCCalls
  Tree <- MCTree
  Cwd <- MCCwd
  MaxCalls = 4
INVARIANTS InodesSound
PROPERTIES CallsReturn
CHECK_DEADLOCK FALSE
