\* A peer worker sends a batch, then a batch request; the primary sends one
\* well-formed message.
CONSTANTS
  t1 = t1  t2 = t2  w1 = w1  p1 = p1
  Conn <- MCConn
  Listener <- MCListener
  Frames <- FramesForward
  CHANNEL_CAPACITY = 1
SPECIFICATION Spec
INVARIANT ForwardedFramesKept
\* The worker stops once its peers have sent all their frames.
CHECK_DEADLOCK FALSE
