\* Messages, timers and a semaphore, suspend and kill: every queue at once.
CONSTANTS
  NPROC = 3
  NSEM = 1
  QUANTUM = 2
  INITPRIO = 2
  Prios = {1, 2}
  NewPrios = {}
  Msgs = {m1}
  Delays = {1, 2}
  Counts = {0}
  MaxCount = 1
  Stacks = {k1, k2}
  NoStack = NoStack
  NoMsg = NoMsg
  Calls = {"create", "resume", "suspend", "kill", "send", "receive", "recvclr", "recvtime", "sleepms", "semcreate", "wait", "signal"}
SPECIFICATION Spec
INVARIANTS QueuesMatchStates CountsWaiters ReceiverHasMessage ProcessorBusy HighestPriorityRuns
PROPERTY MessageKept
SYMMETRY StackSymmetry
