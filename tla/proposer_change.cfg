\* Two transactions spending election e1 in one header of r1: the round-0
\* votes of a replica change within the header, so tallies diverge.
CONSTANTS
  r1 = r1
  r2 = r2
  r3 = r3
  r4 = r4
  e1 = e1
  e2 = e2
  None = None
  Replica <- MCReplica
  Byzantine = {r4}
  QUORUM = 3
  TxHash = {1, 2}
  ElectionId = {e1}
  Input <- InputDoubleSpend
  HeaderSize = 2
  MaxVoteRound = 1
  MaxLoss = 0
  FifoNetwork = TRUE
SPECIFICATION Spec
SYMMETRY PeersSymmetry
\* a proposer with nothing to read waits on its channels forever
CHECK_DEADLOCK FALSE
PROPERTIES
  OneVotePerRound
