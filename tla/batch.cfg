\* Every interleaving of dispatch, size seals and timer seals of seven
\* transactions through a channel of capacity 2, under fair scheduling of the
\* dispatch task, the receive branch and the re-armed max_batch_delay timer.
CONSTANTS
  a = a
  b = b
  c = c
  d = d
  e = e
  f = f
  g = g
  Stream <- MCStream
  TxId <- MCTxId
  TxDataLen <- MCTxDataLen
  BATCH_SIZE = 74
  CHANNEL_CAPACITY = 2
  DIGEST_LEN = 3
SPECIFICATION FairSpec
\* the worker waits for transactions forever once the clients stop
CHECK_DEADLOCK FALSE
INVARIANTS
  TypeOK
  NoTxLostOrDuplicated
  SealedBatchBound
  BatchIdsDistinct
PROPERTIES
  EventuallySealed
