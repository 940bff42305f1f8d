CONSTANTS
  Conns = {c1, c2}
  Fds = {f1}
  LISTEN = LISTEN
  NONE = NONE
  SHARDS = 1
  QUEUE_DEPTH = 1
  STOPS = TRUE
  FRAME = 2
  SOCKET_BUF = 1
  MAX_SESSIONS = 2
  MAX_REPLIES = 1
SPECIFICATION Spec
PROPERTIES SessionReleased RingDrained StopEndsRun
CHECK_DEADLOCK FALSE
