CONSTANTS
  w1 = w1
  w2 = w2
  w3 = w3
  None = None
  Writers = {w1, w2, w3}
  MaxAppends = 2
  c1 = c1
  c2 = c2
  c3 = c3
  Calls = {c1, c2, c3}
  Limit = 1
  BudgetTTL = 1
  StoreTravel = 1
  BatchSize = 2
  MaxQueue = 2
  Editors = {e1, e2}
  Creds = {k1}
  NoCred = NoCred
SPECIFICATION MCSpec
INVARIANTS TypesOK NeverCollides RecordsSound SnapshotSound
PROPERTIES
  ImplementsLog RowsStay AppendsEnd
  GateCloses ShutdownEnds RecordsSettle NeverBack BumpedIsSeen
CHECK_DEADLOCK FALSE
