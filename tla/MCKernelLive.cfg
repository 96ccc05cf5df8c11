\* Round robin, and sleeping that ends, for delays of at least one tick, under
\* fairness of the clock.
CONSTANTS
  NPROC = 3
  NSEM = 1
  QUANTUM = 2
  INITPRIO = 2
  Prios = {1, 2}
  NewPrios = {}
  Msgs = {m1}
  Delays = {1, 2}
  Counts = {}
  MaxCount = 2
  Stacks = {k1, k2}
  NoStack = NoStack
  NoMsg = NoMsg
  Calls = {"create", "resume", "sleepms", "recvtime", "send", "exit"}
SPECIFICATION FairSpec
INVARIANT EntriesAccounted
PROPERTIES RoundRobin SleepEnds
