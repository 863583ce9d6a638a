\* Every handler and every frame kind, clients racing for a channel of one slot
\* into a BatchMaker sealing by size and by timer, with every spawned task
\* scheduled fairly.
CONSTANTS
  t1 = t1  t2 = t2  w1 = w1  p1 = p1
  Conn <- MCConn
  Listener <- MCListener
  Frames <- MCFrames
  TxId <- MCTxId
  TxDataLen <- MCTxDataLen
  CHANNEL_CAPACITY = 1
  BATCH_SIZE = 64
  DIGEST_LEN = 2
SPECIFICATION FairSpec
INVARIANTS TypeOK SealedInClientOrder
PROPERTY EveryTxSealed
\* The worker stops once its peers have sent all their frames.
CHECK_DEADLOCK FALSE
