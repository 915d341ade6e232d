\* Two runs of one task, two executions that take the same run or one each.
CONSTANTS
  r1 = r1
  r2 = r2
  e1 = e1
  e2 = e2
  c1 = c1
  None = None
  Runs <- TwoRuns
  Execs <- TwoExecs
  Cancels <- NoCancel
  MaxChunks = 0
  Faults <- Environment
SPECIFICATION Spec
CHECK_DEADLOCK FALSE
SYMMETRY ExecSymmetry
INVARIANTS
  TokenEndsWithExecution
  LockReleased
  SettledWhenOver
PROPERTIES
  ImplementsMarkers
