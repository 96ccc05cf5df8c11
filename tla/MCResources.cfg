\* Paging with two tables; a heap with a hole and ends of every alignment; more
\* port messages promised than there are nodes; one semaphore too few for the
\* pools; tty buffers that fill up.
CONSTANTS
  DIRLEN = 2
  ENTRIES = 3
  AREASTART = 6
  AREAEND = 8
  Pids = {"a", "b"}
  Values = {0, 2, 7}
  Slots = {0}
  Garbage = {0, 2}
  W = 64
  MB = 2
  WORD = 1
  Ends = {1, 2, 5}
  MAXHEAP = 23
  HOLESTART = 10
  HOLEEND = 14
  NULLSTK = 2
  Sizes = {1, 2, 3}
  MaxBlocks = 4
  PtProcs = {p1, p2}
  NPORTS = 2
  PtMsgs = {"m"}
  PtNodes = 2
  PtCounts = {2}
  PtSems = 3
  MaxSeq = 3
  PtKills = 1
  BufProcs = {p1, p2}
  NBPOOLS = 2
  BufSizes = {8, 9}
  BufCounts = {1, 2}
  BufMem = 50
  BufSems = 1
  BufKills = 1
  BP_MINB = 8
  BP_MAXB = 9
  BP_MAXN = 2
  TyReaders = {r1}
  TyWriters = {p1, p2}
  TY_IBUFLEN = 3
  TY_OBUFLEN = 2
  TY_EBUFLEN = 5
  UART_FIFO_SIZE = 2
  TyTexts <- Texts
  TyReads = {0, 2}
  TyModes = {"RAW", "CBREAK"}
  TyEchoes = {FALSE}
  TyBudgets <- Budgets
SPECIFICATION ResSpec
INVARIANTS IdentityMapped TablesApart FaultsOutside FreeListSound PermitsMatchMessages NodesConserved BuffersConserved TtyBuffersIntact
PROPERTIES IsHeap OutputFlows
SYMMETRY ResSymmetry
CHECK_DEADLOCK FALSE
