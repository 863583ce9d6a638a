\* A client sends a frame that does not deserialize.
CONSTANTS
  t1 = t1  t2 = t2  w1 = w1  p1 = p1
  Conn <- MCConn
  Listener <- MCListener
  Frames <- FramesMalformedTx
  CHANNEL_CAPACITY = 1
SPECIFICATION Spec
INVARIANT MalformedFrameDropped
\* The worker stops once its peers have sent all their frames.
CHECK_DEADLOCK FALSE
