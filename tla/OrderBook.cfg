CONSTANTS
  LADDER_SIZE = 3
  MAX_ORDERS = 4
  NULL_IDX = 99
  Books = {A}
  Sessions = {s1}
  Prices <- MCInside
  Quantities = {1, 3}
  Tokens <- MCFirstHandles
  BASE_PRICE = 0
  TICK_SIZE = 1
  INT_HALF = 8
  MAX_FILLS = 2
  GEN_MOD = 5
  ZERO_SYMBOL = Z
  MAX_ADDS = 4
SPECIFICATION Spec
INVARIANTS BestInv NoCrossUnlessCut
PROPERTY PriceTimePriority
CHECK_DEADLOCK FALSE
