\* One run, one execution, one cancel request, with every fault.
CONSTANTS
  r1 = r1
  r2 = r2
  e1 = e1
  e2 = e2
  c1 = c1
  None = None
  Runs <- OneRun
  Execs <- OneExec
  Cancels <- OneCancel
  MaxChunks = 1
  Faults <- AllFaults
SPECIFICATION Spec
CHECK_DEADLOCK FALSE
INVARIANTS
  TypeOK
  DoneAfterStarted
  FinalizingImpliesSuccess
