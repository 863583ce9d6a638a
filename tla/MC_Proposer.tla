---------------------------- MODULE MC_Proposer ----------------------------
(* Four primaries; r4 is byzantine (silent), so r1, r2 and r3 form the only *)
(* quorum. Transactions 1 and 2 spend the same input (election e1).        *)
EXTENDS Proposer

CONSTANTS r1, r2, r3, r4, e1, e2

MCReplica == {r1, r2, r3, r4}

\* one transaction reaches r1's worker
InputSingle == {<<r1, 1, e1>>}

\* a client sends two transactions spending the same input to r1
InputDoubleSpend == {<<r1, 1, e1>>, <<r1, 2, e1>>}

\* r1 and r2 each propose an election in round 0
InputTwoHeaders == {<<r1, 1, e1>>, <<r2, 2, e2>>}

\* r2 and r3 play the same part when every input reaches r1: swapping them
\* maps behaviours to behaviours (used for safety runs only)
PeersSymmetry == Permutations({r2, r3})
====
