CONSTANTS
  Conns = {c1, c2}
  Fds = {f1}
  NONE = NONE
  SQPOLL = FALSE
  RING_DEPTH = 2
  SEND_SLOTS = 2
  QUEUE_DEPTH = 2
  FRAME = 2
  SOCKET_BUF = 2
  MAX_SESSIONS = 2
  MAX_REPLIES = 2
SPECIFICATION Spec
INVARIANTS SlotInOnePlace OneRecvPerConn OneAccept RepliesToOwner RepliesInOrder
SYMMETRY Symmetry
CHECK_DEADLOCK FALSE
