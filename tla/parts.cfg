SPECIFICATION PartSpec
CONSTANTS
  Conns = {c1, c2, c3, c4}
  Priorities = {0, 1}
  Buffers = 4
  HDR = 2
  ALIGN = 2
  PAGE = 10
  RegionSizes = {7, 18}
  Sizes = {1, 4, 5}
  PGSIZE = 3
  USERTOP = 18
  Grows <- MCGrows
  Images = {1, 5, 10, 11, 15, 16}
  Slots = {1, 2, 3}
  CPUs = {1, 2}
  Counts = {0, 2, 3}
  UINT = 8
  BSIZE = 2
  NDIRECT = 1
  NINDIRECT = 1
  MaxN = 3
  MaxDamage = 1
  Kids = {1, 2, 3}
  MaxCopies = 2
  Readers = {p, q}
  INPUT_BUF = 3
  INDEX = 6
  MaxRead = 2
  NCPUS = 2
  Tasks = {1, 2}
  UNIT = 2
  WORD = 64
  NALLOC = 6
  UPAGE = 2
  BREAK = 2
  LIMIT = 15
  Bytes = {1, 12, 40, 62, 63}
  MaxLive = 3
  Writers = {u, v}
  NFILES = 2
  SIZE = 4
  BPB = 3
  Producers = {p1}
  Consumers = {q1, q2}
  N = 1
  MaxNum = 3
  NDIRECTS = 1
  NINDIRECTS = 2
INVARIANTS HeapSound AllocSound HeapStackApart DrawsRight ChecksExplained
INVARIANTS ShellExplained ConsoleSound SpinSound BufferGuarded MallocSound BlocksSound
PROPERTIES ImplementsPriorityQueue ImplementsArena
CHECK_DEADLOCK FALSE
