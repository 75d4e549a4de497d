SPECIFICATION Spec
CONSTANTS
  Calls = {c1, c2, c3}
  MaxProcesses = 3
  None = None
INVARIANT LiveMountKept
CHECK_DEADLOCK FALSE
