CONSTANTS
  MaxSends = 2
  MaxPieces = 1
  MaxStops = 1
  MaxOpens = 1
SPECIFICATION ChatSpec
PROPERTY PageSettles
CHECK_DEADLOCK FALSE
