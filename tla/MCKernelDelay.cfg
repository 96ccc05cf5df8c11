\* Two sleepers and a third process that takes one of them out early.
CONSTANTS
  NPROC = 4
  NSEM = 1
  QUANTUM = 1
  INITPRIO = 2
  Prios = {2}
  NewPrios = {}
  Msgs = {m1}
  Delays = {1, 2, 3}
  Counts = {}
  MaxCount = 1
  Stacks = {k1, k2, k3}
  NoStack = NoStack
  NoMsg = NoMsg
  Calls = {"create", "resume", "send", "recvtime", "sleepms"}
SPECIFICATION Spec
PROPERTY DelaysKept
SYMMETRY StackSymmetry
