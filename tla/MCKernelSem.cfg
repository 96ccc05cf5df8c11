\* Semaphores among three processes of two priorities, and chprio.
CONSTANTS
  NPROC = 4
  NSEM = 1
  QUANTUM = 1
  INITPRIO = 2
  Prios = {1, 2}
  NewPrios = {3}
  Msgs = {}
  Delays = {}
  Counts = {0, 2}
  MaxCount = 2
  Stacks = {k1, k2, k3}
  NoStack = NoStack
  NoMsg = NoMsg
  Calls = {"create", "resume", "chprio", "semcreate", "wait", "signal", "signaln", "semdelete", "semreset", "yield"}
SPECIFICATION Spec
INVARIANTS DeferralOwned DeletedHasNoWaiters
PROPERTY IsSemTable
SYMMETRY StackSymmetry
