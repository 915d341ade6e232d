CONSTANTS
  MaxEvents = 3
  MaxReconnects = 5
  Faults = {"cancel"}
SPECIFICATION Spec
INVARIANT TailDelivered
CHECK_DEADLOCK FALSE
