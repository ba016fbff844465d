SPECIFICATION FairSpec
CONSTANTS
  A = A
  B = B
  s1 = s1
  s2 = s2
  Nobody = Nobody
  Symbols = {A, B}
  Subscribers = {s1, s2}
  SymbolOf <- MCSymbolOfSame
  Readers = {s2}
  MaxTrades = 2
INVARIANTS
  TypeOK
  NothingLost
  IterationHolds
PROPERTIES
  ImplementsFeed
  PublisherReturns
  NextTradeEndsStream
  EveryTradeArrives
CHECK_DEADLOCK FALSE
