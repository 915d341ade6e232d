\* One run, delivered twice under fairness; agents fail and workers die.
CONSTANTS
  r1 = r1
  r2 = r2
  e1 = e1
  e2 = e2
  c1 = c1
  None = None
  Runs <- OneRun
  Execs <- TwoExecs
  Cancels <- NoCancel
  MaxChunks = 0
  Faults <- AgentAndCrash
SPECIFICATION FairSpec
CHECK_DEADLOCK FALSE
PROPERTIES
  RunSettles
  RedeliveryUnblocks
