CONSTANTS
  LADDER_SIZE = 7
  MAX_ORDERS = 1
  NULL_IDX = 99
  WORD_BITS = 3
SPECIFICATION BitmapSpec
INVARIANT IInv
PROPERTIES QueryIsNearest QueryReturns
