SPECIFICATION Spec
CONSTANTS
  Nobody = Nobody
  Handlers = {h1, h2}
  Symbols = {A, B}
  Prices = {1, 2}
  OrderQuantities = {1, 2}
  ModifyQuantities = {}
  MaxQuantity = 2
  Operations = {"submit", "cancel"}
  LogsOpen = {TRUE, FALSE}
  MaxOrders = 3
  MaxRestarts = 0
SYMMETRY MCSymmetry
INVARIANTS
  Conservation
  CompatibleOrdersMatch
