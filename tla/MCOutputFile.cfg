SPECIFICATION FairSpec
CONSTANTS
  r1 = r1
  r2 = r2
  p1 = p1
  Run <- MCRun
  Pids <- MCPids
  Pid <- MCPid
  MaxAttempts = 2
  Blocks = 3
  Absent = Absent
  Old = Old
INVARIANTS
  OutputIsWhole
  NothingLeftBehind
PROPERTIES
  OnlyOwnerTouchesTemp
  ImplementsAtomicOutput
  Returns
CHECK_DEADLOCK FALSE
