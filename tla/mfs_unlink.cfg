SPECIFICATION Spec
CONSTANTS
  Pieces = 3
  PieceSize = 2
  Blocks = 2
  Ents = 3
  Names = {"a", "b", "d"}
  Values = {"v", "w"}
  Clients = {"p"}
  Calls <- MCUnlinks
  MaxCalls = 6
  MaxDepth = 2
  MaxFaults = 0
INVARIANT StaysFound
CHECK_DEADLOCK FALSE
