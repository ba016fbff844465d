SPECIFICATION Spec
CONSTANTS
  Ids = {x, y, z}
  Prices <- MCPrices
  MaxPrice = 2
  SubmitQuantities <- MCPositive
  MaxQuantity = 3
  MaxClock = 3
SYMMETRY MCIdSymmetry
INVARIANTS
  RestingCancellable
CHECK_DEADLOCK FALSE
