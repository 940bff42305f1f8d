CONSTANTS
  LADDER_SIZE = 1
  MAX_ORDERS = 4
  NULL_IDX = 99
  Levels = {la, lb}
  Quantities = {1, 2}
  QTY_MOD = 4
SPECIFICATION Spec
INVARIANTS LinksSpellQueue TotalIsQueued
