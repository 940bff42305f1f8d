CONSTANTS
  LADDER_SIZE = 2
  MAX_ORDERS = 2
  NULL_IDX = 99
  Books = {A, B}
  Sessions = {s1}
  Prices <- MCPrices
  Quantities = {0, 1, 2}
  Tokens <- MCHandles
  BASE_PRICE = 0
  TICK_SIZE = 1
  INT_HALF = 8
  MAX_FILLS = 1
  GEN_MOD = 4
  ZERO_SYMBOL = Z
  MAX_ADDS = 3
SPECIFICATION Spec
INVARIANTS SlotOwnership HandleNamesItsOrder IInv
CHECK_DEADLOCK FALSE
