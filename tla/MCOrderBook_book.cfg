SPECIFICATION FairSpec
CONSTANTS
  o1 = o1
  o2 = o2
  o3 = o3
  Ids = {o1, o2, o3}
  MaxPrice = 2
  Prices <- MCPrices
  AddQuantities <- MCSmall
  ModifyQuantities <- MCUnvalidated
  MaxQuantity = 3
  MaxClock = 4
INVARIANTS
  TypeOK
  BookIndexed
  TimePriority
  TotalsUpToOverflow
  PositiveTrades
PROPERTIES
  MatchingClearsTheBook
  FollowsPriceTimePriority
  MatchingTerminates
