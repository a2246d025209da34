SPECIFICATION MainSpec
CONSTANTS
  r1 = r1
  r2 = r2
  p1 = p1
  Run <- MCRun
  Pids <- MCPids
  Pid <- MCPid
  MaxAttempts = 1
  Blocks = 2
  Absent = Absent
  Old = Old
  MaxObjects = 3
  Commands <- MCCommands
INVARIANT SuccessMeansCompleteHeader
CHECK_DEADLOCK FALSE
