\* Two transactions spending e1 reach r1; messages delivered in any order and any
\* number of times (every FIFO order among them).
CONSTANTS
  r1 = r1
  r2 = r2
  r3 = r3
  r4 = r4
  e1 = e1
  e2 = e2
  None = None
  Replica <- MCReplica
  Byzantine = {r4}
  QUORUM = 3
  TxHash = {1, 2}
  ElectionId = {e1}
  Input <- InputDoubleSpend
  HeaderSize = 1
  MaxVoteRound = 1
  MaxLoss = 0
  FifoNetwork = FALSE
SPECIFICATION Spec
SYMMETRY PeersSymmetry
\* a proposer with nothing to read waits on its channels forever
CHECK_DEADLOCK FALSE
INVARIANTS
  OneHeaderPerRound
PROPERTIES
  DecisionFinal
  RefinesConsensus
