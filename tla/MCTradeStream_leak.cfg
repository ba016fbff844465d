SPECIFICATION FairSpec
CONSTANTS
  A = A
  B = B
  s1 = s1
  s2 = s2
  Nobody = Nobody
  Symbols = {A, B}
  Subscribers = {s1, s2}
  SymbolOf <- MCSymbolOfTwo
  Readers = {s1, s2}
  MaxTrades = 1
PROPERTIES
  CancelledStreamsEnd
CHECK_DEADLOCK FALSE
