SPECIFICATION Spec
CONSTANTS
  Threads = {"t1", "t2", "t3", "t4"}
  Procs = {"p", "q", "r"}
  ProcOf <- MCProcOf
  Limits = {0, 1}
  Sizes = {1}
  MemoryMB = 5
  MaxAllocs = 6
INVARIANTS
  AccountExact
  UsageBounded
