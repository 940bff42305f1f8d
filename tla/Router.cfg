CONSTANTS
  N = 2
  Symbols = {0, 1, 2}
  max_symbols = 2
  Assigned <- MCAssigned
  MAX_ORDERS = 2
  SLOT_MOD = 2
  GEN_MOD = 8
  SHARD_MOD = 4
  QUEUE_DEPTH = 1
  BUF_FRAMES = 2
  Sessions = {c1, c2}
  NONE = NONE
  MAX_REQUESTS = 2
SPECIFICATION Spec
INVARIANTS SessionOrder CancelRemovesItsOrder BooksAreIsolated
SYMMETRY Symmetry
