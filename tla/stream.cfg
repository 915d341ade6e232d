CONSTANTS
  MaxEvents = 3
  MaxReconnects = 5
  Faults = {"agent", "cancel", "reset", "proxy", "db"}
  MaxSends = 2
  MaxPieces = 2
  MaxStops = 1
  MaxOpens = 2
SPECIFICATION MCSpec
INVARIANTS TypeOK GaplessDelivery 
PROPERTY IterationEnds
CHECK_DEADLOCK FALSE
