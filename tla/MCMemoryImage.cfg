\* The layout that compile/ld.script gives: the image starts at HOLEEND.
CONSTANTS
  W = 64
  MB = 2
  WORD = 1
  Ends = {16}
  MAXHEAP = 23
  HOLESTART = 10
  HOLEEND = 14
  NULLSTK = 2
  Sizes = {1, 2, 3}
  MaxBlocks = 5
SPECIFICATION MemSpec
INVARIANT HeldInHeap
