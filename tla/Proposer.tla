------------------------------ MODULE Proposer ------------------------------
(***************************************************************************)
(* The primaries of a DelegatedRingCT committee: every replica runs one    *)
(* Proposer task (src/primary/src/proposer.rs) that pools the digests its  *)
(* workers forward, emits headers, and runs the per-election voting state  *)
(* machine on the headers and votes it receives from the other primaries. *)
(*                                                                         *)
(* The Election and Tally types live in election.rs, which is not part of *)
(* the sources at hand; their operators below (insert_vote,               *)
(* voted_or_committed, total_votes, the find_quorum_of helpers) follow  *)
(* spec.md 4.5.                                                            *)
(*                                                                         *)
(* The network is SimpleSender (best effort): one connection per peer    *)
(* address, so the messages from one primary to another arrive in the     *)
(* order sent, but any of them may be lost; messages from different       *)
(* primaries interleave arbitrarily. Broadcasts to `addresses` include the *)
(* sender itself (that is how a primary processes its own header);        *)
(* broadcasts to `other_primaries` do not.                                 *)
(***************************************************************************)
EXTENDS Integers, Sequences, FiniteSets, SequencesExt

CONSTANTS
  Replica,      \* the committee (model values)
  Byzantine,    \* replicas started with byzantine = true: they stay silent
  TxHash,       \* transaction digests; the integer order is the digest order
  ElectionId,   \* election identifiers (model values)
  Input,        \* the <<replica, tx_hash, election_id>> its workers forward
  HeaderSize,   \* header_size
  MaxVoteRound, \* bound on vote-rounds explored by the model
  MaxLoss,      \* bound on the messages the network loses
  QUORUM,       \* crate::constants::QUORUM (votes needed, equal stakes)
  FifoNetwork,  \* TRUE: per-connection FIFO channels (SimpleSender); FALSE:
                \* a pool of messages received in any order, any number of
                \* times (an over-approximation used to check safety)
  None          \* model value for Option::None

\* crate::constants::NUMBER_OF_NODES: the committee size
NUMBER_OF_NODES == Cardinality(Replica)

\* Any two quorums share more replicas than are byzantine (with
\* NUMBER_OF_NODES = 3f+1 and QUORUM = 2f+1, f byzantine are tolerated).
ASSUME /\ Byzantine \subseteq Replica
       /\ QUORUM \in 1..NUMBER_OF_NODES
       /\ 2 * QUORUM - NUMBER_OF_NODES > Cardinality(Byzantine)
       /\ TxHash \subseteq Nat /\ HeaderSize \in Nat \ {0}
       /\ Input \subseteq Replica \X TxHash \X ElectionId
       /\ MaxVoteRound \in Nat /\ MaxLoss \in Nat /\ FifoNetwork \in BOOLEAN

Correct == Replica \ Byzantine
VoteRound == 0..MaxVoteRound
\* The DAG round advances once per decided election, and every election
\* comes from one forwarded digest, so rounds never exceed |Input|.
DagRound == 0..Cardinality(Input)

VARIABLES
  round,         \* round: the current DAG round
  proposals,     \* proposals: digests waiting for the next header
  ownProposals,  \* own_proposals: rounds in which we made a header
  active,        \* active_elections
  headersSeen,   \* keys of votes and of decided_elections (lines 130, 137):
                 \* ids <<author, round>> of headers processed
  present,       \* rounds that have an entry in elections
  elections,     \* elections[round][election_id], None when absent
  pending,       \* pending_votes[proposal_round]
  crashed,       \* the Proposer task has panicked
  consumed,      \* inputs already read from rx_workers
  msgs,          \* every header ever sent
  chan,          \* chan[<<s, d>>]: messages from s to d in transit
  pool,          \* <<message, destination>> pairs sent (FifoNetwork = FALSE)
  lost           \* number of messages the network has lost

vars == <<round, proposals, ownProposals, active, headersSeen, present,
          elections, pending, crashed, consumed, msgs, chan, pool, lost>>

-----------------------------------------------------------------------------
(* Messages and the Election record (spec-modelled election.rs).           *)

MkVote(vr, tx, e, pr, commit, author, hauth) ==
  [round |-> vr, tx |-> tx, eid |-> e, pr |-> pr, commit |-> commit,
   author |-> author, hauth |-> hauth]

HeaderId(v) == <<v.hauth, v.pr>>

VoteMsg(v) == [type |-> "vote", vote |-> v]
HeaderMsg(h) == [type |-> "header", hdr |-> h]

\* network.broadcast(to, bytes) of the messages of seq, in order, onto the
\* channels base (the channels once the message being handled is taken);
\* silent (byzantine) primaries never read theirs, so nothing is kept there.
Send(s, seq, to, base) ==
  /\ msgs' = msgs \cup {m \in Range(seq) : m.type = "header"}
  /\ IF FifoNetwork
     THEN /\ chan' = [c \in DOMAIN base |->
                       IF c[1] = s /\ c[2] \in to \cap Correct
                       THEN base[c] \o seq ELSE base[c]]
          /\ UNCHANGED pool
     ELSE /\ chan' = base
          /\ pool' = pool \cup (Range(seq) \X (to \cap Correct))
  /\ UNCHANGED lost

\* Nothing is sent.
NoSend(base) == msgs' = msgs /\ chan' = base /\ UNCHANGED <<pool, lost>>

NewElection ==
  [tally   |-> [vr \in VoteRound |-> [a \in Replica |-> None]],
   expired |-> {},
   highest |-> None, commit |-> None, proofRound |-> None, decided |-> FALSE]

\* Election::insert_vote: the author's entry for the vote's round is
\* replaced, and highest keeps the greatest tx_hash seen.
InsertVote(el, v) ==
  [el EXCEPT !.tally[v.round][v.author] = [tx |-> v.tx, commit |-> v.commit],
             !.highest = IF @ = None \/ v.tx > @ THEN v.tx ELSE @]

VotedOrCommitted(el, a, vr) == vr \in VoteRound /\ el.tally[vr][a] # None

TotalVotes(el, vr) == Cardinality({a \in Replica : el.tally[vr][a] # None})

Backers(el, vr, x, c) ==
  {a \in Replica : el.tally[vr][a] = [tx |-> x, commit |-> c]}

\* Tally::find_quorum_of_votes on the tally of one vote-round.
QuorumOfVotes(el, vr) ==
  {x \in TxHash : Cardinality(Backers(el, vr, x, FALSE)) >= QUORUM}

\* Election::find_quorum_of_commits, over all tallies of the election.
QuorumOfCommits(el) ==
  {x \in TxHash : \E vr \in VoteRound :
                     Cardinality(Backers(el, vr, x, TRUE)) >= QUORUM}

-----------------------------------------------------------------------------
Init ==
  /\ round = [r \in Replica |-> 0]
  /\ proposals = [r \in Replica |-> <<>>]
  /\ ownProposals = [r \in Replica |-> {}]
  /\ active = [r \in Replica |-> {}]
  /\ headersSeen = [r \in Replica |-> {}]
  /\ present = [r \in Replica |-> {}]
  /\ elections = [r \in Replica |-> [d \in DagRound |-> [e \in ElectionId |-> None]]]
  /\ pending = [r \in Replica |-> [d \in DagRound |-> {}]]
  /\ crashed = [r \in Replica |-> FALSE]
  /\ consumed = {}
  /\ msgs = {}
  /\ chan = [c \in Replica \X Replica |-> <<>>]
  /\ pool = {}
  /\ lost = 0

Live(r) == r \in Correct /\ ~crashed[r]

\* make_header: drop the proposals whose election is decided (the decided
\* set is never filled) or active, put all the rest in a header of the
\* current round, remember the round, broadcast to every primary.
MakeHeader(r, props) ==
  LET kept == SelectSeq(props, LAMBDA p : p[2] \notin active[r])
  IN /\ proposals' = [proposals EXCEPT ![r] = <<>>]
     /\ ownProposals' = [ownProposals EXCEPT ![r] = @ \cup {round[r]}]
     /\ Send(r, <<HeaderMsg([author |-> r, round |-> round[r],
                             props |-> kept])>>, Replica, chan)

\* Mutant of ReceiveDigest: a header is made whenever header_size digests
\* are pooled, without asking whether this round already has one.
ReceiveDigestEager(r, in) ==
  /\ Live(r) /\ in[1] = r /\ in \notin consumed
  /\ consumed' = consumed \cup {in}
  /\ LET props == Append(proposals[r], <<in[2], in[3]>>)
     IN IF Len(props) >= HeaderSize
        THEN MakeHeader(r, props)
        ELSE /\ proposals' = [proposals EXCEPT ![r] = props]
             /\ UNCHANGED <<ownProposals, msgs, chan, pool, lost>>
  /\ UNCHANGED <<round, active, headersSeen, present, elections, pending,
                 crashed>>

\* run, rx_workers branch: push the digest, then make a header once
\* header_size digests are pooled and none was made in this round.
ReceiveDigest(r, in) ==
  /\ Live(r) /\ in[1] = r /\ in \notin consumed
  /\ consumed' = consumed \cup {in}
  /\ LET props == Append(proposals[r], <<in[2], in[3]>>)
     IN IF Len(props) >= HeaderSize /\ round[r] \notin ownProposals[r]
        THEN MakeHeader(r, props)
        ELSE /\ proposals' = [proposals EXCEPT ![r] = props]
             /\ UNCHANGED <<ownProposals, msgs, chan, pool, lost>>
  /\ UNCHANGED <<round, active, headersSeen, present, elections, pending,
                 crashed>>

\* run, timer branch (max_header_delay): a header for the pooled digests.
HeaderTimer(r) ==
  /\ Live(r)
  /\ Len(proposals[r]) > 0 /\ round[r] \notin ownProposals[r]
  /\ MakeHeader(r, proposals[r])
  /\ UNCHANGED <<round, active, headersSeen, present, elections, pending,
                 crashed, consumed, lost>>

\* Mutant of HeaderEntry: a fresh Election replaces the one the round
\* already holds for the election id.
HeaderEntryFresh(r, h, acc, p) ==
  LET e    == p[2]
      impl == MkVote(0, p[1], e, h.round, FALSE, h.author, h.author)
      own  == [impl EXCEPT !.author = r]
      el1  == InsertVote(NewElection, impl)
  IN [els       |-> [acc.els EXCEPT ![e] = IF h.author # r
                                           THEN InsertVote(el1, own) ELSE el1],
      active    |-> acc.active \cup {e},
      proposals |-> SelectSeq(acc.proposals, LAMBDA q : q[2] # e),
      out       |-> IF h.author # r THEN Append(acc.out, VoteMsg(own))
                                   ELSE acc.out]

\* One iteration of the loop of process_header over the header's (tx_hash,
\* election_id) pairs: the author's implicit round-0 vote, the election
\* created (and made active) on first sight, our own round-0 vote for a
\* peer's header inserted and broadcast to all primaries, the election
\* removed from our pending proposals.
HeaderEntry(r, h, acc, p) ==
  LET e    == p[2]
      impl == MkVote(0, p[1], e, h.round, FALSE, h.author, h.author)
      own  == [impl EXCEPT !.author = r]
      new  == acc.els[e] = None
      el1  == InsertVote(IF new THEN NewElection ELSE acc.els[e], impl)
      peer == h.author # r
  IN [els       |-> [acc.els EXCEPT ![e] = IF peer THEN InsertVote(el1, own)
                                                   ELSE el1],
      active    |-> IF new THEN acc.active \cup {e} ELSE acc.active,
      proposals |-> SelectSeq(acc.proposals, LAMBDA q : q[2] # e),
      out       |-> IF peer THEN Append(acc.out, VoteMsg(own))
                            ELSE acc.out]

\* process_header. decided_elections gets the header id with false (line
\* 130) as votes gets it (137), so headersSeen records both; no line sets
\* an entry to true (257 is commented out). The pending votes of the header's round are drained and
\* re-processed last; a live replica never has any (a vote is buffered only
\* in the step that panics, see PendingOnlyAfterPanic), so the drain
\* changes nothing in the states the code reaches.
ProcessHeader(r, m, base) ==
  LET h   == m.hdr
      acc == FoldLeft(LAMBDA a, p : HeaderEntry(r, h, a, p),
                      [els |-> elections[r][h.round], active |-> active[r],
                       proposals |-> proposals[r], out |-> <<>>],
                      h.props)
  IN /\ pending[r][h.round] = {}
     /\ headersSeen' = [headersSeen EXCEPT ![r] = @ \cup {<<h.author, h.round>>}]
     /\ present' = [present EXCEPT ![r] = @ \cup {h.round}]
     /\ elections' = [elections EXCEPT ![r][h.round] = acc.els]
     /\ active' = [active EXCEPT ![r] = acc.active]
     /\ proposals' = [proposals EXCEPT ![r] = acc.proposals]
     /\ Send(r, acc.out, Replica, base)
     /\ UNCHANGED <<round, ownProposals, pending, crashed, consumed>>

-----------------------------------------------------------------------------
(* process_vote, one action per outcome of its chain of conditions.  Every *)
(* outcome but the decision ends in the header-commit check of lines       *)
(* 397-420: all_proposals is never filled, so the check always looks the  *)
(* header up in votes and unwraps it, which panics when the header has not *)
(* been processed.                                                          *)

\* Mutant of HeaderCheck: the header is found (never panics).
HeaderCheckLenient(r, v) == crashed' = crashed

HeaderCheck(r, v) ==
  crashed' = [crashed EXCEPT ![r] = HeaderId(v) \notin headersSeen[r]]

SetElection(r, v, el) == elections' = [elections EXCEPT ![r][v.pr][v.eid] = el]

\* No election exists yet in the vote's proposal round: the vote is ignored.
VoteIgnored(r, v, base) ==
  /\ v.pr \notin present[r]
  /\ NoSend(base)
  /\ UNCHANGED <<elections, round, pending, crashed>>

\* The round exists but not the election: buffer the vote.
VoteBuffered(r, v, base) ==
  /\ v.pr \in present[r] /\ elections[r][v.pr][v.eid] = None
  /\ pending' = [pending EXCEPT ![r][v.pr] = @ \cup {v}]
  /\ HeaderCheck(r, v)
  /\ NoSend(base)
  /\ UNCHANGED <<elections, round>>

\* The election is already decided: nothing is inserted.
VoteOnDecided(r, v, base) ==
  /\ v.pr \in present[r] /\ elections[r][v.pr][v.eid] # None
  /\ elections[r][v.pr][v.eid].decided
  /\ HeaderCheck(r, v)
  /\ NoSend(base)
  /\ UNCHANGED <<elections, round, pending>>

\* The timer of a tally starts when the tally is created, fires once and
\* latches Expired. Its only reader is the vote-change rule, so its firing
\* is taken at the next vote of that round the election handles: if the
\* tally existed before that vote, its timer may have expired by then. The
\* timer of the last vote-round explored is left out: the vote change it
\* enables would cast a vote beyond MaxVoteRound.
TimerStates(el, vr) ==
  IF TotalVotes(el, vr) > 0 /\ vr < MaxVoteRound
  THEN {el.expired, el.expired \cup {vr}} ELSE {el.expired}

\* The vote is counted: its election exists and is not decided.
Counted(r, v) ==
  /\ v.pr \in present[r] /\ elections[r][v.pr][v.eid] # None
  /\ ~elections[r][v.pr][v.eid].decided
  /\ UNCHANGED pending

\* The election once the vote is inserted, its timer in state exp.
Inserted(r, v, exp) ==
  InsertVote([elections[r][v.pr][v.eid] EXCEPT !.expired = exp], v)

\* Insert our own vote ov and broadcast it to the other primaries.
CastOwn(r, v, el, ov, base) ==
  /\ ov.round \in VoteRound
  /\ SetElection(r, v, InsertVote(el, ov))
  /\ Send(r, <<VoteMsg(ov)>>, Replica \ {r}, base)

\* Mutant of Decide: the DAG round is not advanced.
DecideNoAdvance(r, v, el, base) ==
  /\ QuorumOfCommits(el) # {}
  /\ SetElection(r, v, [el EXCEPT !.decided = TRUE])
  /\ NoSend(base)
  /\ UNCHANGED <<crashed, round>>

\* Decision: a quorum of commits; the election is decided and the DAG
\* round advances (the header timer is reset). Returns before the check.
\* The decided_elections lookup at line 254 is taken to succeed (its key
\* type is in election.rs, not among the sources); its value is always
\* false, so the round always advances.
Decide(r, v, el, base) ==
  /\ QuorumOfCommits(el) # {}
  /\ SetElection(r, v, [el EXCEPT !.decided = TRUE])
  /\ round' = [round EXCEPT ![r] = @ + 1]
  /\ NoSend(base)
  /\ UNCHANGED crashed

\* Mutant of CommitStep: the commit vote is cast even when we already
\* voted in the next round.
CommitStepUnguarded(r, v, el, base) ==
  /\ QuorumOfCommits(el) = {}
  /\ \E x \in QuorumOfVotes(el, v.round) :
       CastOwn(r, v, [el EXCEPT !.commit = x, !.proofRound = v.round],
               MkVote(v.round + 1, x, v.eid, v.pr, TRUE, r, v.hauth), base)
  /\ HeaderCheck(r, v)
  /\ UNCHANGED round

\* Commit step: a quorum of votes for x in the vote's round; commit to x
\* and cast a commit vote in the next round unless we already voted there.
CommitStep(r, v, el, base) ==
  /\ QuorumOfCommits(el) = {}
  /\ \E x \in QuorumOfVotes(el, v.round) :
       IF ~VotedOrCommitted(el, r, v.round + 1)
       THEN CastOwn(r, v, [el EXCEPT !.commit = x, !.proofRound = v.round],
                    MkVote(v.round + 1, x, v.eid, v.pr, TRUE, r, v.hauth), base)
       ELSE /\ SetElection(r, v, el) /\ NoSend(base)
  /\ HeaderCheck(r, v)
  /\ UNCHANGED round

\* Vote-change step: we voted in this round, the round is full or has a
\* quorum and its timer expired; vote for our commit, else the highest.
ChangeStep(r, v, el, base) ==
  /\ QuorumOfCommits(el) = {} /\ QuorumOfVotes(el, v.round) = {}
  /\ VotedOrCommitted(el, r, v.round)
  /\ \/ TotalVotes(el, v.round) >= QUORUM /\ v.round \in el.expired
     \/ TotalVotes(el, v.round) = NUMBER_OF_NODES
  /\ ~VotedOrCommitted(el, r, v.round + 1)
  /\ CastOwn(r, v, el, MkVote(v.round + 1,
                             IF el.commit # None THEN el.commit ELSE el.highest,
                             v.eid, v.pr, el.commit # None, r, v.hauth), base)
  /\ HeaderCheck(r, v)
  /\ UNCHANGED round

\* Initial vote step: we have not voted in this round; vote for our commit,
\* else the highest, copying the commit flag of the vote received.
InitialStep(r, v, el, base) ==
  /\ QuorumOfCommits(el) = {} /\ QuorumOfVotes(el, v.round) = {}
  /\ ~VotedOrCommitted(el, r, v.round)
  /\ CastOwn(r, v, el, MkVote(v.round,
                             IF el.commit # None THEN el.commit ELSE el.highest,
                             v.eid, v.pr, v.commit, r, v.hauth), base)
  /\ HeaderCheck(r, v)
  /\ UNCHANGED round

\* No rule applies: the vote is only inserted.
OnlyInserted(r, v, el, base) ==
  /\ QuorumOfCommits(el) = {} /\ QuorumOfVotes(el, v.round) = {}
  /\ VotedOrCommitted(el, r, v.round)
  /\ \/ ~\/ TotalVotes(el, v.round) >= QUORUM /\ v.round \in el.expired
         \/ TotalVotes(el, v.round) = NUMBER_OF_NODES
     \/ VotedOrCommitted(el, r, v.round + 1)
  /\ SetElection(r, v, el)
  /\ HeaderCheck(r, v)
  /\ NoSend(base)
  /\ UNCHANGED round

ProcessVote(r, v, base) ==
  \/ VoteIgnored(r, v, base)
  \/ VoteBuffered(r, v, base)
  \/ VoteOnDecided(r, v, base)
  \/ /\ Counted(r, v)
     /\ \E exp \in TimerStates(elections[r][v.pr][v.eid], v.round) :
          LET el == Inserted(r, v, exp)
          IN \/ Decide(r, v, el, base)
             \/ CommitStep(r, v, el, base)
             \/ ChangeStep(r, v, el, base)
             \/ InitialStep(r, v, el, base)
             \/ OnlyInserted(r, v, el, base)

\* run, rx_primaries branch: receive the next header or vote from s.
\* The message leaves its channel before it is handled; the handler's own
\* broadcasts are appended to the channels that result.
Handle(r, m, base) ==
  IF m.type = "header"
  THEN ProcessHeader(r, m, base)
  ELSE /\ ProcessVote(r, m.vote, base)
       /\ UNCHANGED <<proposals, ownProposals, active, headersSeen,
                      present, consumed>>

Receive(r, s) ==
  LET c == <<s, r>>
  IN /\ FifoNetwork /\ Live(r) /\ chan[c] # <<>>
     /\ Handle(r, Head(chan[c]), [chan EXCEPT ![c] = Tail(@)])

\* The same branch over the pool: any message sent to r, again and again.
ReceiveAny(r, m) ==
  /\ ~FifoNetwork /\ Live(r) /\ <<m, r>> \in pool
  /\ Handle(r, m, chan)

\* SimpleSender loses the next message from s to d (its connection failed).
LoseMessage(s, d) ==
  /\ chan[<<s, d>>] # <<>> /\ lost < MaxLoss
  /\ chan' = [chan EXCEPT ![<<s, d>>] = Tail(@)]
  /\ lost' = lost + 1
  /\ UNCHANGED <<round, proposals, ownProposals, active, headersSeen, present,
                 elections, pending, crashed, consumed, msgs, pool>>

Next ==
  \E r \in Replica :
    \/ \E in \in Input : ReceiveDigest(r, in)
    \/ HeaderTimer(r)
    \/ \E s \in Replica : Receive(r, s) \/ LoseMessage(s, r)
    \/ \E p \in pool : ReceiveAny(r, p[1])

Spec == Init /\ [][Next]_vars

\* Each primary's tasks are scheduled fairly by tokio: a message waiting on
\* a connection is eventually handled, a forwarded digest is eventually
\* read, and the max_header_delay timer keeps firing.
FairSpec ==
  /\ Spec
  /\ \A r \in Correct :
       /\ WF_vars(HeaderTimer(r))
       /\ \A in \in Input : WF_vars(ReceiveDigest(r, in))
       /\ \A s \in Replica : WF_vars(Receive(r, s))

-----------------------------------------------------------------------------
(* Properties.                                                             *)

\* The tx_hash a replica decided for the election of proposal round d and
\* election id e: the commit quorum that made it decide (the election is
\* frozen afterwards).
DecidedValues(r, d, e) ==
  IF elections[r][d][e] # None /\ elections[r][d][e].decided
  THEN QuorumOfCommits(elections[r][d][e]) ELSE {}

\* Agreement (spec 8.1): correct replicas that decide the election of a
\* round decide the same tx_hash, whatever the order in which headers and
\* votes (including the round-0 votes a replica casts for every header it
\* processes) reach them, and whichever votes the network loses.
Agreement ==
  \A d \in DagRound, e \in ElectionId :
    Cardinality(UNION {DecidedValues(r, d, e) : r \in Correct}) <= 1

\* The refinement mapping to ElectionConsensus: an election id is chosen
\* for the transactions some correct replica has decided for it, in any
\* DAG round.
chosenBar ==
  [e \in ElectionId |->
     UNION {DecidedValues(r, d, e) : r \in Correct, d \in DagRound}]

Consensus == INSTANCE ElectionConsensus WITH chosen <- chosenBar

\* Proposer implements ElectionConsensus: across all correct replicas and
\* DAG rounds, an election id goes from undecided to one transaction in a
\* single step and then never changes, however headers and votes are
\* delayed, lost or interleaved (spec 8.1 and the Election invariant of
\* spec 3).
RefinesConsensus == Consensus!Spec

\* spec 3, Header: each election id appears at most once per author per
\* round. make_header drops only decided and active elections and drains
\* the rest, two digests of one election included; process_header then
\* casts and broadcasts one round-0 vote per entry (line 189).
HeaderElectionsDistinct ==
  \A m \in msgs : IsInjective([i \in DOMAIN m.hdr.props |-> m.hdr.props[i][2]])

\* The DAG round of a replica counts the elections it has decided: every
\* decision advances it exactly once (process_vote line 266).
RoundCountsDecisions ==
  \A r \in Correct :
    round[r] = Cardinality({de \in DagRound \X ElectionId :
                              DecidedValues(r, de[1], de[2]) # {}})

\* One header per round (spec 8.4): no correct replica broadcasts two
\* headers for the same round, whether they come from the size or the
\* timer branch of run.
OneHeaderPerRound ==
  \A m1, m2 \in msgs :
    (/\ m1.type = "header" /\ m2.type = "header"
     /\ m1.hdr.author = m2.hdr.author /\ m1.hdr.round = m2.hdr.round)
    => m1 = m2

\* Pending votes (spec 8, boundary behaviours): a vote whose header has not
\* arrived is buffered and the proposer carries on. In the code the vote is
\* buffered and the proposer task panics at the unwrap of line 417.
NoPanic == \A r \in Correct : ~crashed[r]

\* Buffered votes only exist at a proposer that has panicked: the drain of
\* pending_votes in process_header never has anything to replay.
PendingOnlyAfterPanic ==
  \A r \in Correct, d \in DagRound : pending[r][d] # {} => crashed[r]

\* Termination (spec 8.3), in its weakest form: with no message lost and
\* fair scheduling, every election of every header broadcast is eventually
\* decided by at least one correct primary. Votes that reach a primary
\* before the header they vote on are ignored, and a primary that has
\* decided stops voting.
DecidedSomewhere ==
  \A m \in msgs : \A i \in DOMAIN m.hdr.props :
    \E r \in Correct : DecidedValues(r, m.hdr.round, m.hdr.props[i][2]) # {}

Progress == <>[]DecidedSomewhere

\* A decision is final (spec 3, Election): once a replica has decided an
\* election, later headers and votes never undo it nor change its value.
DecisionFinal ==
  [][\A r \in Correct, d \in DagRound, e \in ElectionId :
       DecidedValues(r, d, e) # {} =>
         DecidedValues(r, d, e)' = DecidedValues(r, d, e)]_elections

\* One vote per vote-round (the premise of quorum intersection): from
\* vote-round 1 on, the vote a correct replica has cast in an election is
\* never replaced. The commit, vote-change and initial-vote rules each cast
\* in a round only if process_vote finds no own vote there, while headers,
\* timers and late votes interleave.
OwnVote(r, d, e, vr) ==
  IF elections[r][d][e] = None THEN None ELSE elections[r][d][e].tally[vr][r]

OneVotePerRound ==
  [][\A r \in Correct, d \in DagRound, e \in ElectionId, vr \in VoteRound \ {0} :
       OwnVote(r, d, e, vr) # None => OwnVote(r, d, e, vr)' = OwnVote(r, d, e, vr)]_elections

====
