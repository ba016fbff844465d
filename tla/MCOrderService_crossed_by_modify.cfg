SPECIFICATION Spec
CONSTANTS
  Nobody = Nobody
  Handlers = {h1, h2}
  Symbols = {A}
  Prices = {1, 2}
  OrderQuantities = {1}
  ModifyQuantities = {1}
  MaxQuantity = 1
  Operations = {"submit", "modify"}
  LogsOpen = {TRUE}
  MaxOrders = 2
  MaxRestarts = 0
INVARIANTS
  CompatibleOrdersMatch
