\* Votes of all four authorities, re-delivered at will; four certificates of the round.
CONSTANTS
  a1 = a1  a2 = a2  a3 = a3  a4 = a4
  h1 = h1  h2 = h2  h3 = h3  h4 = h4
  Authority <- MCAuthority
  Stake <- MCStake
  Header <- MCHeader
  Author <- MCAuthor
  QUORUM = 4
  OwnHeader = h1
SPECIFICATION Spec
INVARIANTS CertificateIntegrity CertifiedOnce RoundQuorum
\* Both aggregators stop once every vote and certificate is in.
CHECK_DEADLOCK FALSE
