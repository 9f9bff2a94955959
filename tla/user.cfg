SPECIFICATION UserSpec
CONSTANTS
  MAXARGS = 3
  Tokens <- MCTokens
  MaxTokens = 5
  NPID = 5
  NOFILE = 6
  PIPESIZE = 1
  NoFile = {"m"}
  Lines <- MCLines
  MaxLines = 2
  NPAGES = 12
  PGSIZE = 2
  SPAN = 4
  UTOP = 3
  KTOP = 5
  NPROC = 3
  Grows <- MCGrows
  Images = {4, 6}
  BSIZE = 4
  DIRENT = 2
  IPB = 2
  NDIRECT = 1
  NINDIRECT = 2
  NINODES = 6
  SIZE = 26
  FileSizes = {0, 4, 5, 12, 13}
  MaxDepth = 3
INVARIANTS ParsesTheLanguage LinesRun PagesSound ImageReady
PROPERTIES LineEnds
CHECK_DEADLOCK FALSE
