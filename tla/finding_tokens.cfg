CONSTANTS
  Exactness = {TRUE}
  Ids = {1, 2, 3}
  Micros = {0, 1, 2, 3}
  PerMilli = 2
  PageSize = 1
SPECIFICATION ListingSpec
INVARIANT EachRowOnce
CHECK_DEADLOCK FALSE
