SPECIFICATION FairSpec
CONSTANTS
  Workers = {w1, w2}
  Conns = {c1, c2}
  Requests <- MixedRequests
  Policies = {"SFNF"}
  Removable = {}
  Buffers = 1
  MaxSpurious = 1
  Master = Master
  None = None
PROPERTY AcceptedIsFinished
CHECK_DEADLOCK FALSE
