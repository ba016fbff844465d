SPECIFICATION Spec
CONSTANTS
  Nobody = Nobody
  Handlers = {h1}
  Symbols = {A}
  Prices = {1}
  OrderQuantities = {1}
  ModifyQuantities = {}
  MaxQuantity = 1
  Operations = {"submit"}
  LogsOpen = {TRUE}
  MaxOrders = 2
  MaxRestarts = 1
INVARIANTS
  LoggedIdsUnique
CHECK_DEADLOCK FALSE
