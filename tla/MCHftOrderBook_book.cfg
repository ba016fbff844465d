SPECIFICATION Spec
CONSTANTS
  Ids = {x, y, z}
  Prices <- MCPrices
  MaxPrice = 2
  SubmitQuantities <- MCUnvalidated
  MaxQuantity = 3
  MaxClock = 3
SYMMETRY MCIdSymmetry
INVARIANTS
  TypeOK
  NoEmptyLevel
  LookupSound
  OwnIdCancellable
  PositiveTrades
PROPERTIES
  FollowsPriceTimePriority
CHECK_DEADLOCK FALSE
