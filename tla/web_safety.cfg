SPECIFICATION Spec
CONSTANTS
  Workers = {w1, w2}
  Conns = {c1, c2, c3}
  Requests <- RudeRequests
  Policies = {"FIFO", "SFF"}
  Removable = {c1, c2, c3}
  Buffers = 2
  MaxSpurious = 1
  Master = Master
  None = None
SYMMETRY ThreadAndConnSymmetry
INVARIANTS BufferSafe ServedInOrder NoLostWakeup
CHECK_DEADLOCK FALSE
