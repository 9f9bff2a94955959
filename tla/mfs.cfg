SPECIFICATION Spec
CONSTANTS
  Pieces = 3
  PieceSize = 2
  Blocks = 2
  Ents = 3
  Names = {"a", "b", "d"}
  Values = {"v", "w"}
  Clients = {"p"}
  Calls <- MCCalls
  MaxCalls = 4
  MaxDepth = 2
  MaxFaults = 1
INVARIANTS ImageSound AcknowledgedKept OneDatagram
PROPERTY CallReturns
CHECK_DEADLOCK FALSE
