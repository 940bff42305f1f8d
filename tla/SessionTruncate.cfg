CONSTANTS
  RECV_BUF_SIZE = 10
  RECV_CHUNK = 3
  MAX_FRAME_LEN = 6
  SizeofNewOrder = 5
  SizeofCancelOrder = 4
  QUEUE_DEPTH = 1
  session_id = 7
  Frames <- MCNewOrders
  MAX_FRAMES = 5
SPECIFICATION Spec
INVARIANT StreamReassembled
CHECK_DEADLOCK FALSE
