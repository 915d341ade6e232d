\* A transition that was checked before a cancel request wrote.
CONSTANTS
  r1 = r1
  r2 = r2
  e1 = e1
  e2 = e2
  c1 = c1
  None = None
  Runs <- OneRun
  Execs <- OneExec
  Cancels <- OneCancel
  MaxChunks = 0
  Faults <- AgentFault
SPECIFICATION Spec
CHECK_DEADLOCK FALSE
PROPERTIES
  OnlyTableTransitions
