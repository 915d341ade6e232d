CONSTANTS
  Editors = {w1, w2}
  Creds = {k1}
  NoCred = NoCred
SPECIFICATION CatalogSpec
INVARIANT NotifiedIsSeen
CHECK_DEADLOCK FALSE
