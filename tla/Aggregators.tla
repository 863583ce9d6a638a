----------------------------- MODULE Aggregators -----------------------------
(***************************************************************************)
(* The two aggregators of the primary (src/primary/src/aggregators.rs).   *)
(* The VotesAggregator of our header of a round counts the votes of        *)
(* distinct authorities and, at quorum_threshold stake, returns a          *)
(* Certificate with the votes so far.  The round's CertificatesAggregator  *)
(* counts certificates of distinct origins, ours and those of the other    *)
(* primaries, and at quorum_threshold returns the digests it holds.  Both  *)
(* reset their weight to 0 on reaching the quorum; neither clears `used`.  *)
(* Votes may be delivered more than once.  (lib.rs does not compile this   *)
(* module: `//mod aggregators;`.)                                          *)
(***************************************************************************)
EXTENDS Integers, Sequences, SequencesExt, FiniteSetsExt

CONSTANTS
  Authority,   \* the committee
  Stake,       \* Stake[a]: committee.stake(a)
  QUORUM,      \* committee.quorum_threshold()
  Header,      \* the headers of one round, one certificate each
  Author,      \* Author[h]: the origin of h's certificate
  OwnHeader    \* the header whose votes we aggregate

ASSUME /\ Stake \in [Authority -> Nat \ {0}]
       /\ OwnHeader \in Header /\ Author \in [Header -> Authority]
       \* any two quorums intersect
       /\ 2 * QUORUM > MapThenSumSet(LAMBDA a : Stake[a], Authority)

VARIABLES
  weight,     \* VotesAggregator.weight
  votes,      \* VotesAggregator.votes: the authors, in append order
  used,       \* VotesAggregator.used
  reused,     \* the authors whose append returned AuthorityReuse
  certs,      \* the certificates VotesAggregator::append returned
  cweight,    \* CertificatesAggregator.weight
  cused,      \* CertificatesAggregator.used
  digests,    \* CertificatesAggregator.certificates
  fed,        \* the headers whose certificate was appended
  emitted     \* the digest lists CertificatesAggregator::append returned

vars == <<weight, votes, used, reused, certs, cweight, cused, digests, fed, emitted>>

\* VotesAggregator::new and CertificatesAggregator::new.
\* VotesAggregator::new: no weight, no votes, no author used.
VotesAggregatorNew == weight = 0 /\ votes = <<>> /\ used = {}

\* CertificatesAggregator::new, after VotesAggregator::new; nothing has
\* been refused, returned or appended yet.
Init ==
  /\ VotesAggregatorNew
  /\ cweight = 0 /\ cused = {} /\ digests = <<>>
  /\ reused = {} /\ certs = {} /\ fed = {} /\ emitted = <<>>

-----------------------------------------------------------------------------
\* Mutant of VotesAppend: no AuthorityReuse check.
VotesAppendNoReuseCheck(a) ==
  /\ used' = used \cup {a}
  /\ votes' = Append(votes, a)
  /\ IF weight + Stake[a] >= QUORUM
     THEN weight' = 0 /\ certs' = certs \cup {[header |-> OwnHeader, votes |-> votes']}
     ELSE weight' = weight + Stake[a] /\ UNCHANGED certs
  /\ UNCHANGED <<reused, cweight, cused, digests, fed, emitted>>

\* Mutant of VotesAppend: the weight is not reset at the quorum.
VotesAppendNoReset(a) ==
  \/ /\ a \in used
     /\ reused' = reused \cup {a}
     /\ UNCHANGED <<weight, votes, used, certs>>
  \/ /\ a \notin used
     /\ used' = used \cup {a}
     /\ votes' = Append(votes, a)
     /\ weight' = weight + Stake[a]
     /\ IF weight' >= QUORUM
        THEN certs' = certs \cup {[header |-> OwnHeader, votes |-> votes']}
        ELSE UNCHANGED certs
     /\ UNCHANGED reused
  /\ UNCHANGED <<cweight, cused, digests, fed, emitted>>

\* VotesAggregator::append of a vote by a: a second vote of a is refused
\* with AuthorityReuse; otherwise the vote is pushed, its author's stake
\* added, and at the quorum the weight is reset and a certificate with a
\* copy of the votes returned.
VotesAppend(a) ==
  \/ /\ a \in used
     /\ reused' = reused \cup {a}
     /\ UNCHANGED <<weight, votes, used, certs>>
  \/ /\ a \notin used
     /\ used' = used \cup {a}
     /\ votes' = Append(votes, a)
     /\ IF weight + Stake[a] >= QUORUM
        THEN /\ weight' = 0
             /\ certs' = certs \cup {[header |-> OwnHeader, votes |-> votes']}
        ELSE /\ weight' = weight + Stake[a]
             /\ UNCHANGED certs
     /\ UNCHANGED reused
  /\ UNCHANGED <<cweight, cused, digests, fed, emitted>>

\* Mutant of CertificatesAppend: duplicate origins are counted.
CertificatesAppendNoDedup(h) ==
  /\ fed' = fed \cup {h}
  /\ cused' = cused \cup {Author[h]}
  /\ IF cweight + Stake[Author[h]] >= QUORUM
     THEN /\ cweight' = 0 /\ digests' = <<>>
          /\ emitted' = Append(emitted, Append(digests, h))
     ELSE /\ cweight' = cweight + Stake[Author[h]]
          /\ digests' = Append(digests, h) /\ UNCHANGED emitted
  /\ UNCHANGED <<weight, votes, used, reused, certs>>

\* CertificatesAggregator::append of h's certificate: a second certificate
\* of one origin is a no-op; otherwise its digest is pushed, the origin's
\* stake added, and at the quorum the weight is reset and the digests are
\* drained and returned.
CertificatesAppend(h) ==
  /\ fed' = fed \cup {h}
  /\ \/ /\ Author[h] \in cused
        /\ UNCHANGED <<cweight, cused, digests, emitted>>
     \/ /\ Author[h] \notin cused
        /\ cused' = cused \cup {Author[h]}
        /\ IF cweight + Stake[Author[h]] >= QUORUM
           THEN /\ cweight' = 0
                /\ digests' = <<>>
                /\ emitted' = Append(emitted, Append(digests, h))
           ELSE /\ cweight' = cweight + Stake[Author[h]]
                /\ digests' = Append(digests, h)
                /\ UNCHANGED emitted
  /\ UNCHANGED <<weight, votes, used, reused, certs>>

\* A vote of any authority for our header arrives, possibly again.
ReceiveVote == \E a \in Authority : VotesAppend(a)

\* A certificate of the round reaches the CertificatesAggregator once: our
\* own once VotesAggregator has returned it, the others' from their
\* primaries.
ReceiveCertificate ==
  \E h \in Header \ fed :
    /\ h = OwnHeader => certs # {}
    /\ CertificatesAppend(h)

Next == ReceiveVote \/ ReceiveCertificate

Spec == Init /\ [][Next]_vars

-----------------------------------------------------------------------------
\* The stake of a set of authorities, for the properties.
StakeOf(S) == MapThenSumSet(LAMBDA a : Stake[a], S)

\* spec 8.6, certificate integrity: every certificate VotesAggregator
\* returns carries votes of distinct authorities whose stake reaches the
\* quorum, however the votes are re-delivered.
CertificateIntegrity ==
  \A c \in certs : IsInjective(c.votes) /\ StakeOf(Range(c.votes)) >= QUORUM

\* spec 4.6 and the comment at line 40: the quorum is reached only once,
\* so VotesAggregator returns at most one certificate for the header,
\* although the votes keep being accepted after it.
CertifiedOnce == Cardinality(certs) <= 1

\* The digests CertificatesAggregator returns are those of certificates of
\* distinct origins whose stake reaches the quorum (spec 4.7).
RoundQuorum ==
  \A i \in DOMAIN emitted :
    LET origins == [j \in DOMAIN emitted[i] |-> Author[emitted[i][j]]]
    IN IsInjective(origins) /\ StakeOf(Range(origins)) >= QUORUM

====
