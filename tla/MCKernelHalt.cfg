\* kill twice of the same process.
CONSTANTS
  NPROC = 3
  NSEM = 1
  QUANTUM = 2
  INITPRIO = 2
  Prios = {1, 2}
  NewPrios = {}
  Msgs = {}
  Delays = {}
  Counts = {}
  MaxCount = 2
  Stacks = {k1, k2}
  NoStack = NoStack
  NoMsg = NoMsg
  Calls = {"create", "resume", "kill", "receive"}
SPECIFICATION Spec
INVARIANT HaltsOnlyWhenAlone
