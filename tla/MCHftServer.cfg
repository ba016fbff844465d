SPECIFICATION FairSpec
CONSTANTS
  Handlers = {h1}
  matching_thread_ = matching_thread_
  Nobody = Nobody
  Streams = {s1}
  Readers = {s1}
  ClientIds = {"x", "y"}
  Orders <- MCOrders
  MaxQuantity = 2
  MaxOrders = 3
INVARIANTS
  TypeOK
  NothingDangles
  EveryTradeOnce
PROPERTIES
  QuoteCatchesUp
  RpcsReturn
  ShutdownCompletes
CHECK_DEADLOCK FALSE
