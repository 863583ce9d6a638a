\* Headers of r1 (e1) and r2 (e2) in DAG round 0: votes of one election reach
\* a replica that has only seen the other header of the round: it panics.
CONSTANTS
  r1 = r1
  r2 = r2
  r3 = r3
  r4 = r4
  e1 = e1
  e2 = e2
  None = None
  Replica <- MCReplica
  Byzantine = {r4}
  QUORUM = 3
  TxHash = {1, 2}
  ElectionId = {e1, e2}
  Input <- InputTwoHeaders
  HeaderSize = 1
  MaxVoteRound = 0
  MaxLoss = 1
  FifoNetwork = TRUE
SPECIFICATION Spec
\* a proposer with nothing to read waits on its channels forever
CHECK_DEADLOCK FALSE
INVARIANTS
  NoPanic
