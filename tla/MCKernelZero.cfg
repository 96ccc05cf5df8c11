\* A timeout of 0.
CONSTANTS
  NPROC = 3
  NSEM = 1
  QUANTUM = 2
  INITPRIO = 2
  Prios = {1, 2}
  NewPrios = {}
  Msgs = {}
  Delays = {0, 1, 2}
  Counts = {}
  MaxCount = 2
  Stacks = {k1, k2}
  NoStack = NoStack
  NoMsg = NoMsg
  Calls = {"create", "resume", "sleepms", "recvtime"}
SPECIFICATION FairSpec
PROPERTY SleepEnds
