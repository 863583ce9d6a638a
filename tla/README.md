# TLA+ models of DelegatedRingCT's consensus core

This directory holds TLA+ models of the leaderless BFT core in `src/`. The
models cover:
- the primary's `Proposer` and its per-election voting, with an abstract specification (`ElectionConsensus`) it is checked to implement;
- the primary's vote and certificate aggregators;
- the worker's boot sequence and its three network handlers;
- the worker's transaction path into the `BatchMaker`, alone and composed with the network handlers (`WorkerPipeline`).

TLC checks them.

## The system

A node has one **primary** and one or more **workers**.

Worker side:
- `TxReceiverHandler::dispatch` (`src/worker/src/worker.rs`) decodes each client transaction. It pushes the transaction onto the bounded channel `tx_batch_maker`.
- `BatchMaker` (`src/worker/src/batch_maker.rs`) seals a batch when it reaches `batch_size` bytes, or when the `max_batch_delay` timer fires with a non-empty batch.
- A sealed batch goes to the `Processor` with a 32-byte identifier. The identifier is the first transaction's id, zero-padded or truncated; it is not a hash.
- The `QuorumWaiter` is commented out, so batches are not disseminated to other workers.
- `Worker::spawn` runs `handle_primary_messages`, `handle_clients_transactions` and `handle_workers_messages` in turn. Each creates channels, spawns a network `Receiver` with its handler, and returns, dropping the receiver halves it still owns. The Synchronizer, Helper and peer-batch Processor are commented out or never spawned, so `rx_synchronizer` and `rx_helper` die at boot.
- `WorkerReceiverHandler` ignores `Batch` messages and forwards `BatchRequest`s to `tx_helper`. `PrimaryReceiverHandler` forwards the primary's messages to `tx_synchronizer`. Both log deserialisation errors.

Primary side:
- The `Proposer` (`src/primary/src/proposer.rs`) pools the `(tx_hash, election_id)` pairs forwarded by its workers.
- It makes one header per DAG round. The trigger is either `header_size` pairs or the `max_header_delay` timer. The header is broadcast to every primary, the sender included.
- Each primary processes every header it receives. It creates an **election** per election id, inserts the author's implicit round-0 vote, and broadcasts its own round-0 vote.
- `process_vote` inserts each vote into the election's tally, then applies the first rule that holds:
  1. **decision**: a quorum of commits → the election is decided and the DAG round advances;
  2. **commit**: a quorum of votes in the vote's round → a commit vote in the next round, unless we already voted there;
  3. **vote change**: the round is full, or it has a quorum of voters and its timer has expired → vote for our commit, or else for the highest tx_hash;
  4. **initial vote**: we have not voted in this round.

  After the rule, the header-commit check runs.
- `aggregators.rs` holds `VotesAggregator` (votes for one header → a `Certificate`) and `CertificatesAggregator` (certificates of a round → a list of digests). `lib.rs` does not compile it (`//mod aggregators;`), and the `Core` that would call it is not among the sources.
- `election.rs`, `primary.rs`, `messages.rs` and the `Processor` are not among the sources. The election operators are therefore taken from `spec.md` §4.5, and PROJECT.json marks them `spec_modelled`.

### How the parts interact

| Flow | Channel | Modelled in |
|---|---|---|
| client → TxReceiverHandler → BatchMaker | TCP, then the bounded `tx_batch_maker` | `BatchMaker` |
| BatchMaker → Processor → primary | `tx_processor`, PrimaryConnector | the `Input` constant of `Proposer` |
| primary ↔ primary (headers, votes) | `SimpleSender`: one TCP connection per peer, best effort | `chan` / `pool` in `Proposer` |
| client, peer worker, primary → worker | one `Receiver` task per connection, then `tx_batch_maker`, `tx_helper`, `tx_synchronizer` | `WorkerReceivers` |
| clients → connection tasks → BatchMaker → sealed batches | the shared `tx_batch_maker` | `WorkerPipeline` (`WorkerReceivers` and `BatchMaker` composed) |
| votes → certificate → round digests | direct calls (from the `Core`, not in the sources) | `Aggregators` |

## Modules

### `Proposer.tla` (and `MC_Proposer.tla`)

The module models `run`, `make_header`, `process_header` and `process_vote` for every replica of a committee.

State:
- `round`, `proposals`, `ownProposals`, `active`, `pending` and `crashed` are the fields of `struct Proposer`. `crashed` means the task has panicked.
- `headersSeen` is the key set of `votes` and of `decided_elections`: `process_header` inserts the header id into both (lines 130 and 137). No line ever sets a `decided_elections` entry to true, because line 257 is commented out.
- `ProcessHeader` has no pending-vote drain (203-210). It is guarded by `pending[r][h.round] = {}` instead. `PendingOnlyAfterPanic` shows that a live replica never has a buffered vote, so the drain would have nothing to replay.
- `present` and `elections` mirror the `elections: round → election_id → Election` map.
- `consumed` records the inputs already read.
- `msgs` holds every header sent.

Network:
- With `FifoNetwork = TRUE`, `chan` holds one FIFO sequence per connection. This is SimpleSender: it keeps order per link and loses messages only through `LoseMessage`, which is bounded by `MaxLoss`.
- With `FifoNetwork = FALSE`, `pool` holds messages that may be received in any order, any number of times.

Actions:
- `ReceiveDigest` and `HeaderTimer` are the two header-making branches of `run`. Both call `MakeHeader`.
- `Receive`/`ReceiveAny` is the `rx_primaries` branch. It dispatches to `ProcessHeader` or `ProcessVote`.
  - `ProcessHeader` folds `HeaderEntry` over the header's entries, one per loop iteration.
  - `ProcessVote` is a disjunction of one action per outcome: `VoteIgnored` (line 422), `VoteBuffered` (384-395), `VoteOnDecided`, `Decide`, `CommitStep`, `ChangeStep`, `InitialStep` and `OnlyInserted`.
  - Every outcome except the decision ends in `HeaderCheck`. This is lines 397-420: since `all_proposals` is never filled, the check always unwraps `votes.get(header_id)`.
- Byzantine replicas are silent: they never process headers or vote. This matches `byzantine = true` in the code.

The tally timer:
- The timer's only reader is the vote-change rule, so its expiry is taken lazily, at the next vote the tally handles (`TimerStates`).
- The timer can only have expired if the tally already existed.
- The timer of the last explored vote-round is not taken, because the vote change it enables would cast a vote beyond `MaxVoteRound`.

### `BatchMaker.tla` (and `MC_BatchMaker.tla`)

State:
- `received`: how far `TxReceiverHandler` has read the client stream.
- `toBatchMaker`: the bounded channel.
- `currentBatch` and `currentBatchSize`.
- `sealed`: the `(batch, identifier)` pairs sent to the processor.

Actions:
- `DispatchTransaction`: the handler. It waits while the channel is full.
- `ReceiveTransaction`: the size branch. It takes the next transaction off the channel and applies `AddTransaction`, which adds `data.len() + 32`, pushes the transaction, and seals when the size is `>= batch_size`.
- `BatchTimer`: the timer branch. It seals a non-empty batch.
- `SealBatch` drains the batch and resets the size.
- `BatchDigest` computes the identifier by padding or truncating the first transaction's id.

### `ElectionConsensus.tla` and the refinement

`ElectionConsensus` is what the election protocol promises. `chosen[e]` is `{}` while election `e` is open. One `Decide(e, x)` step sets it to `{x}`, and nothing changes it afterwards.

`Proposer.tla` defines the refinement mapping `chosenBar`: the union, over correct replicas and DAG rounds, of the values each replica has decided for `e`. It instantiates `Consensus == INSTANCE ElectionConsensus WITH chosen <- chosenBar`. The property `RefinesConsensus == Consensus!Spec` says that every Proposer step is a `Decide` step or leaves `chosenBar` unchanged. This rules out:
- two correct replicas deciding different transactions;
- one election id decided for two transactions in different DAG rounds;
- a decision being undone.

### `WorkerReceivers.tla` (and `MC_WorkerReceivers.tla`)

State:
- `boot`: how many await-free steps of `Worker::spawn` have run.
- `queue`: the contents of `tx_batch_maker`, `tx_helper` and `tx_synchronizer`. An item is `<<connection, frame index>>`.
- `next` and `panicked`: the progress of each connection task.
- `taken`: what the BatchMaker received.
- `discarded`: items thrown away with a dropped receiver.

`Listening` and `RxOpen` derive from `boot` which Receivers run and which receiver halves exist.

Actions:
- `SpawnPrimaryReceiver`, `DropSynchronizer`, `HandleClientsTransactions`, `SpawnWorkerReceiver` and `DropHelper` are the boot steps, in program order. They interleave with the connection tasks, because a spawned Receiver runs concurrently with the rest of `spawn`.
- `TxDispatch`, `WorkerDispatch` and `PrimaryDispatch` are the three `dispatch` methods:
  - `Forward` waits while the channel is full, and panics if the receiver is gone;
  - `Skip` consumes a logged or ignored frame;
  - `Panic` ends the connection task.
- `BatchMakerReceive` is the BatchMaker's receive branch, reduced to taking the item. `WorkerPipeline` replaces it by the real BatchMaker.

Frames are abstracted to their kind (`Tx`, `Batch`, `BatchRequest`, `PrimaryMsg`) or `Malformed`.

### `WorkerPipeline.tla` (and `MC_WorkerPipeline.tla`)

This module composes the two worker modules over the one channel they share: `handle_clients_transactions` hands `rx_batch_maker` to the BatchMaker.
- `WR == INSTANCE WorkerReceivers` gives the boot steps and the connection tasks.
- `BM == INSTANCE BatchMaker WITH toBatchMaker <- queue["batch_maker"]` gives the batch state. Its single-client stand-in (`Stream`, `received`) is not used.

Actions:
- `Boot` and `Dispatch(c)` are the steps of `WorkerReceivers`, with the batch state unchanged.
- `Receive` is `BatchMakerReceive` together with `AddTransaction` on the item taken.
- `Timer` is the timer branch.

The transactions in the batches are the items `<<connection, frame index>>`, so the batches show which client sent what, in which order.

### `Aggregators.tla` (and `MC_Aggregators.tla`)

The state is the fields of both structs (`weight`, `votes`, `used`; `cweight`, `cused`, `digests`), plus:
- `certs`: the certificates returned;
- `emitted`: the digest lists returned;
- `reused`: the authors refused with `AuthorityReuse`;
- `fed`: the certificates already appended.

Actions:
- `VotesAppend(a)` and `CertificatesAppend(h)` are the two `append` methods, with every branch.
- `ReceiveVote` lets any authority's vote arrive any number of times.
- `ReceiveCertificate` appends each certificate of the round once: our own after `VotesAggregator` returned it, the other primaries' as they arrive.

`QUORUM` is a constant, because `Committee` is not among the sources. The module assumes that two quorums exceed the total stake.

## Runs

Every run has `r4` as a silent byzantine replica (N = 4, QUORUM = 3).

| Run | Expect | Setting | What it shows |
|---|---|---|---|
| `proposer_double` | pass | two transactions of e1 reach r1 one after the other; reliable FIFO links; vote-rounds 0..1 | `RoundCountsDecisions`: the DAG round counts exactly the decided elections. With one election, each decision advances the round once; two elections decided in one DAG round are out of reach (see Not modelled) |
| `proposer_change` | pass | r1's header carries two transactions of e1 (header_size 2; the header may come from the timer) | the tallies diverge at round 0 and the vote-change rule fires; `OneVotePerRound`: no correct replica ever replaces its vote of a round ≥ 1 |
| `proposer_pool` | pass | two transactions of e1 reach r1; pool network: any order, duplicates | `OneHeaderPerRound`; `DecisionFinal`: late or re-delivered headers and votes never undo or change a decision; `RefinesConsensus`: the proposers implement `ElectionConsensus` |
| `proposer_two` | pass | r1 (e1) and r2 (e2) both propose in DAG round 0; 1 lost message | `PendingOnlyAfterPanic`: only a proposer that panics in the same step ever buffers a vote |
| `proposer_duplicate` | violation | as `proposer_change` | `HeaderElectionsDistinct` fails: r1 pools both digests of e1 and makes one header listing e1 twice |
| `proposer_panic` | violation | as `proposer_two` | `NoPanic` fails: a vote of e2 reaches a replica that has only r1's header; the vote is buffered and line 417 panics |
| `proposer_progress` | violation | one election; reliable links; fair scheduling | `Progress` fails: see Findings |
| `batch` | pass | 7 transactions; channel capacity 2; batch_size 74; fair scheduling | `TypeOK` (the channel stays in capacity); `NoTxLostOrDuplicated`; `SealedBatchBound`; `BatchIdsDistinct`: no two sealed batches share an identifier; `EventuallySealed`: every transaction is eventually sealed |
| `worker` | pass | `MC_WorkerPipeline`: two clients (t2 sends a malformed frame after its transaction), a peer worker and the primary; every frame kind; channels of one slot; the boot interleaved with the handlers; batch_size 64 reached exactly, exceeded, or left to the timer; fair scheduling | `TypeOK`; `SealedInClientOrder`: each client's transactions go into the sealed batches once and in the order sent; `EveryTxSealed`: every transaction a handler passed on is eventually sealed, and a well-behaved client has all its transactions passed on |
| `worker_forward` | violation | a peer worker sends a `Batch`, then a `BatchRequest`; the primary sends one message | `ForwardedFramesKept` fails. In TLC's shortest trace, the primary receiver is spawned, `rx_synchronizer` is dropped, and the primary's message then panics at the `expect` of line 332. The property also fails in two other ways: a message queued before the drop is discarded, and a `BatchRequest` panics on the dropped `rx_helper`. Both were confirmed by checking those parts of the property alone (findings 4 and 5) |
| `worker_malformed` | violation | a client sends a frame that does not decode | `MalformedFrameDropped` fails: `unwrap` panics the connection task |
| `aggregators` | pass | stakes 2,1,1,1 (quorum 4); votes re-delivered at will; a1 has two certificates in the round | `CertificateIntegrity`: distinct voters reaching the quorum; `CertifiedOnce`; `RoundQuorum`: the digest list comes from distinct origins reaching the quorum |

Each property of a passing run has a mutant in PROJECT.json. A mutant is a plausible bug in the code it models, and TLC finds the property violated on it. Examples:
- the commit step without its `voted_or_committed(r+1)` guard;
- a fresh `Election` that replaces an existing one;
- `>` in place of `>=` at the seal threshold;
- a seal that does not drain the batch;
- `try_send` in place of a waiting send;
- an aggregator that does not reset its weight, or that counts a reused author or origin twice.

### Bounds and why they suffice

- **Committee.** Four replicas with one silent byzantine replica is the minimum real BFT setting named in spec §8, and it is the setting of spec scenario 2.
- **Vote-rounds.**
  - `MaxVoteRound = 1` allows a full pass: round-0 votes, commit votes in round 1, and the decision.
  - It also allows the vote change from round 0 to round 1, which needs a round-0 timer.
  - `proposer_pool` uses the same bound.
- **Inputs.**
  - At most two inputs: either two elections in one round, or two transactions of one election.
  - Two inputs are enough to reach every outcome of `process_vote`. Together, the passing runs fire every action and every disjunct of both `Next` relations.
- **Symmetry.** `PeersSymmetry` swaps r2 and r3 in the runs where every input reaches r1. It is used only for safety properties, including the refinement (a box-action property whose mapping is symmetric in r2 and r3).
- **Refinement.** The pool network includes every FIFO order, so `proposer_pool` covers both delivery models for the refinement. Two transactions of one election id give the refinement a second value to choose.
- **Worker.**
  - Channels of one slot make the two clients contend and wait.
  - One connection per listener, plus a second client, exercises every branch of every handler.
  - Each boot step can interleave with each dispatch, which is what the race at line 119 needs.
  - In `worker`, three transactions reach the BatchMaker: two of them reach `batch_size` exactly or exceed it, and an odd one is left for the timer, so every seal path is taken with the clients interleaved.
- **Aggregators.**
  - Unequal stakes make the quorum depend on who votes, not on how many.
  - With all four authorities voting, a vote arrives after the certificate, which is what a missing weight reset would need to certify twice.
  - Two certificates of one origin are what a missing origin check would need to count twice.
- **BatchMaker.**
  - The sizes make one batch reach `batch_size` exactly (the `>=` edge).
  - Other batches exceed it, and some batches are left for the timer to seal.
  - A channel of capacity 2 fills while the maker is behind.

### Fairness

- `FairSpec` (Proposer) puts weak fairness on each correct replica's `HeaderTimer`, `ReceiveDigest` and per-connection `Receive`. tokio's `select!` keeps polling all three branches, and `max_header_delay` re-arms the timer after each firing.
- Loss is not fair, and it is not used in the liveness run.
- `BatchMaker` has weak fairness on dispatch, on the receive branch and on the timer, for the same reason.
- `WorkerPipeline` has weak fairness on the boot steps (`spawn` is synchronous code that runs to its end), on each connection task (tokio polls every spawned task), and on both branches of the BatchMaker's `select!`.

## Findings

1. **Pending votes panic** (`proposer.rs:417`, run `proposer_panic`).
   - Suppose a round already has an election, and a vote arrives for another election of that round.
   - The vote is buffered, and the header-commit check then unwraps `votes.get(header_id)` for a header never processed. The Proposer task panics.
   - spec §8 says such a vote is buffered and replayed exactly once.
2. **No progress with one silent replica** (`proposer.rs:422`, run `proposer_progress`).
   - A vote whose proposal round has no entry yet is dropped.
   - The proposer r1 can receive the peers' round-0 votes and commit votes before its own header comes back over its loopback connection. It drops them all. r2 and r3 each end with two commits; nobody decides.
   - This contradicts spec §8 scenario 2.

3. **A header may list one election twice** (`proposer.rs:438`, run `proposer_duplicate`).
   - `make_header` removes decided and active elections from `proposals`, but not an election pooled twice.
   - Two digests spending one input that reach the proposer before its next header both go into it.
   - `process_header` then casts and broadcasts one round-0 vote per entry (line 189), the second replacing the first in every tally.
   - spec §3 says each election id appears at most once per author per round in a header.
4. **Batch requests always panic** (`worker.rs:305`, run `worker_forward`).
   - `handle_workers_messages` drops `rx_helper` on return, because `Helper::spawn` is commented out.
   - The first `BatchRequest` on a connection makes `tx_helper.send` fail. `expect` then panics, ending that connection's task.
   - The comment at line 206 says the Helper replies to batch requests.
5. **Primary messages are lost or panic** (`worker.rs:119` and `:332`, run `worker_forward`).
   - `rx_synchronizer` is dropped when `handle_primary_messages` returns, but the Receiver spawned just before may already be dispatching.
   - Every message that arrives after the drop panics at the `expect` of line 332 (the trace TLC reports). A message queued in the window before the drop is discarded silently.
   - spec §4.1 and §7 say that data loss must not be swallowed.
6. **A malformed transaction panics its connection** (`worker.rs:249`, run `worker_malformed`).
   - `TxReceiverHandler` unwraps `bincode::deserialize`.
   - spec §7 says a deserialisation failure drops the frame and logs it, as the other two handlers do.

Also observed, not given a run: after returning its certificate, `VotesAggregator::append` keeps accepting votes of new authors and answers `Ok(None)`. spec §4.6 says it refuses them. The returned certificate is a copy and is unaffected, and the module is not compiled.

## Not modelled, and the plan

- **Agreement with conflicting proposers.**
  - With 3 correct replicas and QUORUM 3, every decision needs all of them in one vote-round. Agreement then follows from `OneVotePerRound`.
  - In the header_size 2 setting (`proposer_change`), a replica's own round-0 vote is fixed by the last entry of the header. Every round-0 quorum is therefore for that transaction, and the duplicate round-0 votes of line 189 cannot split a decision there.
  - r1 and r2 each proposing a different transaction of e1 in DAG round 0, with vote-rounds 0..1, does not finish: more than 10 minutes over FIFO links, and more than 5 minutes over the pool. Restricting the order so that every header is delivered before any vote (an action constraint) still reached over 400,000 states in 100 seconds with the channels growing.
  - The way to check it would be an election-only module that starts from arbitrary round-0 tallies, so that conflicting headers are covered without the header stage. It is not part of the project.
- **Two elections decided in one DAG round.** `process_vote` advances `round` once per decision (line 266). Two decisions in one DAG round therefore skip a header round. Reaching that needs two elections with commit rounds: either two headers of round 0, or one header with two elections. Neither setting finished within 10 minutes, so `RoundCountsDecisions` is checked with one election only.
- **Type invariants of `Proposer` and `Aggregators`.** None is checked. Each clause would restate a Rust type of the field it covers, so no bug that compiles could break it.
- **The QuorumWaiter and the peer-batch Processor** are commented out and have no running code.
- **The network `Receiver`** (not among the sources). Each connection is a task that dispatches its frames in order, and a panic ends that task (spec §5: tasks communicate only through channels). The model does not follow whether the panic also brings the replica down. The spec says it should; with tokio's default it does not.
- **Cryptography, validation errors and domain separators.** These have no state or concurrency for TLC to explore.
- **The benchmark client.** It sends one serialized `Block` of 512 transactions per frame. `TxReceiverHandler` decodes each frame as one `Transaction`, and `worker::Block` has no `range_proof_bytes` field. Whether such a frame decodes depends on `crypto::Transaction`, which is not among the sources. The models take each client frame to be a transaction or malformed; the hazard is listed in PROJECT.json.
- **The `decided_elections.get(..).unwrap()` at line 254.** The type of the value it is given is defined in `election.rs`, which is not available, so the model assumes the lookup succeeds. `decided_elections` is keyed by header ids (line 130). Spec §4.5 says that `find_quorum_of_commits` returns the decided transaction's hash. If that is so, the lookup fails on every decision and the unwrap panics. Which reading holds depends on the missing file, so no run asserts either one; the hazard is listed in PROJECT.json with this note.
