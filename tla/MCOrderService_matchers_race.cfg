SPECIFICATION Spec
CONSTANTS
  Nobody = Nobody
  Handlers = {h1, h2}
  Symbols = {A, B}
  Prices = {1}
  OrderQuantities = {1}
  ModifyQuantities = {}
  MaxQuantity = 1
  Operations = {"submit"}
  LogsOpen = {TRUE}
  MaxOrders = 2
  MaxRestarts = 0
INVARIANTS
  NoMatchersRace
CHECK_DEADLOCK FALSE
