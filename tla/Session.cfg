CONSTANTS
  RECV_BUF_SIZE = 9
  RECV_CHUNK = 9
  MAX_FRAME_LEN = 6
  SizeofNewOrder = 5
  SizeofCancelOrder = 4
  QUEUE_DEPTH = 1
  session_id = 7
  Frames <- MCFrames
  MAX_FRAMES = 4
SPECIFICATION Spec
INVARIANTS PushedInOrder NothingKeptBack ClosedByInvalid
PROPERTY PushedUnlessStalled
CHECK_DEADLOCK FALSE
