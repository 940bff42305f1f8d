CONSTANTS
  LADDER_SIZE = 1
  MAX_ORDERS = 3
  NULL_IDX = 99
  Books = {A}
  ForeignSymbols = {Z}
  Sessions = {s1, s2}
  Prices <- MCShardPrices
  Quantities = {1, 2}
  Tokens <- MCTokens
  BASE_PRICE = 0
  TICK_SIZE = 1
  INT_HALF = 8
  MAX_FILLS = 2
  GEN_MOD = 4
  ZERO_SYMBOL = Z
  MAX_ADDS = 3
  QUEUE_DEPTH = 1
  NewOrders <- MCNewOrders
  Guessers = {s2}
  MAX_OTHERS = 2
  Buyer = s1
  Seller = s2
  Nothing = Nothing
SPECIFICATION SpecShard
INVARIANTS ReportsMatchTrades AckBeforePassiveFill CancelAckIsFinal 
PROPERTY EveryRequestHandled
