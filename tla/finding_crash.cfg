\* The worker dies and nobody delivers the job again.
CONSTANTS
  r1 = r1
  r2 = r2
  e1 = e1
  e2 = e2
  c1 = c1
  None = None
  Runs <- OneRun
  Execs <- OneExec
  Cancels <- NoCancel
  MaxChunks = 0
  Faults <- CrashFault
SPECIFICATION FairSpec
CHECK_DEADLOCK FALSE
PROPERTIES
  StuckRunsRecovered
