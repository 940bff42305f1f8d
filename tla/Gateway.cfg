CONSTANTS
  Conns = {c1, c2}
  Fds = {f1, f2}
  LISTEN = LISTEN
  NONE = NONE
  SHARDS = 1
  QUEUE_DEPTH = 1
  STOPS = FALSE
  FRAME = 2
  SOCKET_BUF = 1
  MAX_SESSIONS = 2
  MAX_REPLIES = 2
SPECIFICATION Spec
INVARIANTS NoStaleEvent RepliesToOwner RepliesInOrder IInv
SYMMETRY Symmetry
