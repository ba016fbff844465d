SPECIFICATION FairSpec
CONSTANTS
  Nobody = Nobody
  Handlers = {h1, h2}
  Symbols = {A}
  Prices = {1}
  OrderQuantities = {2}
  ModifyQuantities <- MCUnchecked
  MaxQuantity = 2
  Operations = {"submit", "modify", "get"}
  LogsOpen = {TRUE}
  MaxOrders = 2
  MaxRestarts = 1
INVARIANTS
  TypeOK
  Conservation
  AuditTrail
PROPERTIES
  HandlersReturn
