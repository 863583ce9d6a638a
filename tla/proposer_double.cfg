\* Two transactions spending e1 reach r1 one after the other (header_size 1),
\* every order of delivery over reliable FIFO links.
CONSTANTS
  r1 = r1
  r2 = r2
  r3 = r3
  r4 = r4
  e1 = e1
  e2 = e2
  None = None
  Replica <- MCReplica
  Byzantine = {r4}
  QUORUM = 3
  TxHash = {1, 2}
  ElectionId = {e1}
  Input <- InputDoubleSpend
  HeaderSize = 1
  MaxVoteRound = 1
  MaxLoss = 0
  FifoNetwork = TRUE
SPECIFICATION Spec
SYMMETRY PeersSymmetry
\* a proposer with nothing to read waits on its channels forever
CHECK_DEADLOCK FALSE
INVARIANTS
  RoundCountsDecisions
