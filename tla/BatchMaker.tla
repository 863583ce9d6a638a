----------------------------- MODULE BatchMaker -----------------------------
(***************************************************************************)
(* The client-transaction path of a worker (src/worker/src/worker.rs and  *)
(* src/worker/src/batch_maker.rs): TxReceiverHandler::dispatch decodes     *)
(* each transaction a client sends and pushes it onto the bounded channel *)
(* tx_batch_maker; the BatchMaker task selects between that channel and   *)
(* its max_batch_delay timer, and seals the current batch when it reaches *)
(* batch_size bytes or when the timer fires with a non-empty batch.  A     *)
(* sealed batch goes to tx_processor together with its identifier, the    *)
(* first transaction's id zero-padded or truncated to 32 bytes.           *)
(***************************************************************************)
EXTENDS Integers, Sequences, SequencesExt

CONSTANTS
  Stream,           \* the transactions the clients send, in arrival order
  TxId,             \* TxId[t]: the id bytes of transaction t
  TxDataLen,        \* TxDataLen[t]: transaction.data.len()
  BATCH_SIZE,       \* batch_size, in bytes
  CHANNEL_CAPACITY, \* capacity of tx_batch_maker
  DIGEST_LEN        \* bytes of a batch identifier (32 in the code)

ASSUME /\ BATCH_SIZE \in Nat /\ CHANNEL_CAPACITY \in Nat \ {0}
       /\ DIGEST_LEN \in Nat \ {0}

VARIABLES
  received,         \* transactions TxReceiverHandler has read off the network
  toBatchMaker,     \* tx_batch_maker: transactions in the channel
  currentBatch,     \* current_batch
  currentBatchSize, \* current_batch_size
  sealed            \* <<batch, digest>> pairs sent on tx_processor, in order

vars == <<received, toBatchMaker, currentBatch, currentBatchSize, sealed>>

Init ==
  /\ received = 0
  /\ toBatchMaker = <<>>
  /\ currentBatch = <<>>
  /\ currentBatchSize = 0
  /\ sealed = <<>>

\* Mutant of BatchDigest: the copy stops one byte short of the id.
BatchDigestShort(batch) ==
  LET id == TxId[batch[1]]
  IN [i \in 1..DIGEST_LEN |-> IF i < Len(id) THEN id[i] ELSE 0]

\* The identifier of a batch: the id of its first transaction, copied into
\* a zeroed array of DIGEST_LEN bytes when shorter, truncated when longer.
BatchDigest(batch) ==
  LET id == TxId[batch[1]]
  IN [i \in 1..DIGEST_LEN |-> IF i <= Len(id) THEN id[i] ELSE 0]

\* Mutant of SealBatch: the current batch is not drained.
SealBatchNoDrain(b) ==
  /\ sealed' = Append(sealed, <<b, BatchDigest(b)>>)
  /\ currentBatch' = b
  /\ currentBatchSize' = 0

\* seal, on the current batch b: the batch and its identifier go to
\* tx_processor; the batch is drained and its size reset.
SealBatch(b) ==
  /\ sealed' = Append(sealed, <<b, BatchDigest(b)>>)
  /\ currentBatch' = <<>>
  /\ currentBatchSize' = 0

\* Mutant of DispatchTransaction: the send does not wait for room.
DispatchTransactionUnbounded ==
  /\ received < Len(Stream)
  /\ received' = received + 1
  /\ toBatchMaker' = Append(toBatchMaker, Stream[received + 1])
  /\ UNCHANGED <<currentBatch, currentBatchSize, sealed>>

\* TxReceiverHandler::dispatch: decode the next transaction and send it on
\* tx_batch_maker, waiting while the channel is full.
DispatchTransaction ==
  /\ received < Len(Stream)
  /\ Len(toBatchMaker) < CHANNEL_CAPACITY
  /\ received' = received + 1
  /\ toBatchMaker' = Append(toBatchMaker, Stream[received + 1])
  /\ UNCHANGED <<currentBatch, currentBatchSize, sealed>>

\* Mutant of AddTransaction: seals only once the size exceeds batch_size.
AddTransactionLate(tx) ==
  LET size == currentBatchSize + TxDataLen[tx] + 32
  IN IF size > BATCH_SIZE
     THEN SealBatch(Append(currentBatch, tx))
     ELSE /\ currentBatch' = Append(currentBatch, tx)
          /\ currentBatchSize' = size
          /\ UNCHANGED sealed

\* The body of the rx_transaction branch of run on transaction tx: add
\* data.len() + 32 to the size, push tx, and seal once the size reaches
\* batch_size (the timer is reset, which the model need not track).
AddTransaction(tx) ==
  LET size == currentBatchSize + TxDataLen[tx] + 32
  IN IF size >= BATCH_SIZE
     THEN SealBatch(Append(currentBatch, tx))
     ELSE /\ currentBatch' = Append(currentBatch, tx)
          /\ currentBatchSize' = size
          /\ UNCHANGED sealed

\* run, rx_transaction branch: the next transaction leaves tx_batch_maker.
ReceiveTransaction ==
  /\ toBatchMaker # <<>>
  /\ toBatchMaker' = Tail(toBatchMaker)
  /\ AddTransaction(Head(toBatchMaker))
  /\ UNCHANGED received

\* Mutant of BatchTimer: the timer seals only batches of two or more.
BatchTimerOffByOne ==
  /\ Len(currentBatch) > 1
  /\ SealBatch(currentBatch)
  /\ UNCHANGED <<received, toBatchMaker>>

\* run, timer branch: seal the batch if it is not empty.
BatchTimer ==
  /\ currentBatch # <<>>
  /\ SealBatch(currentBatch)
  /\ UNCHANGED <<received, toBatchMaker>>

Next == DispatchTransaction \/ ReceiveTransaction \/ BatchTimer

Spec == Init /\ [][Next]_vars

\* tokio polls both branches of the select and the dispatch task; the
\* max_batch_delay timer is re-armed after every firing.
FairSpec ==
  /\ Spec
  /\ WF_vars(DispatchTransaction)
  /\ WF_vars(ReceiveTransaction)
  /\ WF_vars(BatchTimer)

-----------------------------------------------------------------------------
Batches == [i \in DOMAIN sealed |-> sealed[i][1]]

TypeOK ==
  /\ received \in 0..Len(Stream)
  /\ toBatchMaker \in Seq(Range(Stream))
  /\ Len(toBatchMaker) <= CHANNEL_CAPACITY
  /\ currentBatch \in Seq(Range(Stream))
  /\ currentBatchSize \in Nat
  /\ sealed \in Seq(Seq(Range(Stream)) \X Seq(Nat))

\* No transaction is lost or duplicated across seals (spec 8, scenario 6):
\* the batches sent to the processor, then the current batch, then the
\* channel, are exactly the transactions received, in order, whichever
\* of the size branch and the timer seals each batch.
NoTxLostOrDuplicated ==
  FlattenSeq(Batches) \o currentBatch \o toBatchMaker = SubSeq(Stream, 1, received)

\* A batch is sealed no later than the transaction that brings its size to
\* batch_size: without its last transaction every sealed batch is smaller
\* than batch_size, whatever the timer did before.
BatchSize(batch) ==
  FoldLeft(LAMBDA acc, t : acc + TxDataLen[t] + 32, 0, batch)

SealedBatchBound ==
  \A i \in DOMAIN sealed :
    BatchSize(SubSeq(sealed[i][1], 1, Len(sealed[i][1]) - 1)) < BATCH_SIZE

\* The processor stores a batch under its identifier, so no two batches
\* sent to it may share one: with client ids distinct and shorter than
\* the identifier, seal never gives two batches the same identifier,
\* whichever seal path closed them and wherever the batches start.
BatchIdsDistinct ==
  \A i, j \in DOMAIN sealed : i # j => sealed[i][2] # sealed[j][2]

\* Latency is bounded (spec 4.1): every transaction a client sends is
\* eventually sealed into a batch, by size or by the timer.
AllSealed == received = Len(Stream) /\ toBatchMaker = <<>> /\ currentBatch = <<>>

EventuallySealed == <>[]AllSealed

====
