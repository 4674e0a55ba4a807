SPECIFICATION ListingsSpec
CONSTANTS
  ListRows = {1, 2, 3}
  NoRow = 0
  MaxPlace = 3
  PageLimit = 1
  LastPage = 200
  MaxListed = 1
INVARIANT PageBoundariesHold
CHECK_DEADLOCK FALSE
