--------------------------- MODULE WorkerPipeline ---------------------------
(***************************************************************************)
(* The client-transaction path of a worker, end to end: the network side  *)
(* of WorkerReceivers (the boot of Worker::spawn and the connection tasks) *)
(* feeds tx_batch_maker, and the BatchMaker task of BatchMaker takes from  *)
(* that channel, instead of the abstract BatchMakerReceive, and builds and *)
(* seals batches by size or by its timer.  The two share exactly the one   *)
(* channel (handle_clients_transactions, worker.rs 126-158).  An item of   *)
(* the channel is <<connection, frame index>>: the transaction a client    *)
(* sent as that frame.                                                     *)
(***************************************************************************)
EXTENDS Integers, Sequences, SequencesExt

CONSTANTS
  Conn, Listener, Frames, CHANNEL_CAPACITY,  \* as in WorkerReceivers
  TxId,        \* TxId[<<c, i>>]: the id bytes of the transaction of frame i
  TxDataLen,   \* TxDataLen[<<c, i>>]: its data.len()
  BATCH_SIZE,  \* batch_size, in bytes
  DIGEST_LEN   \* bytes of a batch identifier

VARIABLES
  boot, queue, next, panicked, taken, discarded,  \* WorkerReceivers
  currentBatch, currentBatchSize, sealed          \* BatchMaker

receiverVars == <<boot, queue, next, panicked, taken, discarded>>
makerVars == <<currentBatch, currentBatchSize, sealed>>
vars == <<receiverVars, makerVars>>

WR == INSTANCE WorkerReceivers

\* The BatchMaker's rx_transaction is the batch_maker channel; its own
\* stand-in for the client side (Stream, received) is not used.
BM == INSTANCE BatchMaker
        WITH Stream <- <<>>, received <- 0, toBatchMaker <- queue["batch_maker"]

Init == WR!Init /\ BM!Init

\* Worker::spawn: one step of the boot; the BatchMaker is not involved.
Boot ==
  /\ \/ WR!SpawnPrimaryReceiver \/ WR!DropSynchronizer
     \/ WR!HandleClientsTransactions \/ WR!SpawnWorkerReceiver \/ WR!DropHelper
  /\ UNCHANGED makerVars

\* A connection task dispatches its next frame.
Dispatch(c) ==
  /\ WR!TxDispatch(c) \/ WR!WorkerDispatch(c) \/ WR!PrimaryDispatch(c)
  /\ UNCHANGED makerVars

\* BatchMaker::run, rx_transaction branch: the next item leaves the
\* channel and is added to the current batch, which is sealed at batch_size.
Receive ==
  /\ WR!BatchMakerReceive
  /\ BM!AddTransaction(Head(queue["batch_maker"]))

\* BatchMaker::run, timer branch: a non-empty batch is sealed.
Timer ==
  /\ UNCHANGED receiverVars
  /\ BM!BatchTimer

Next == Boot \/ (\E c \in Conn : Dispatch(c)) \/ Receive \/ Timer

Spec == Init /\ [][Next]_vars

\* tokio runs Worker::spawn to its end and polls every connection task and
\* both branches of the BatchMaker's select; the timer is re-armed after
\* each firing.
FairSpec ==
  /\ Spec
  /\ WF_vars(Boot)
  /\ \A c \in Conn : WF_vars(Dispatch(c))
  /\ WF_vars(Receive)
  /\ WF_vars(Timer)

-----------------------------------------------------------------------------
TypeOK ==
  /\ WR!TypeOK
  /\ currentBatch \in Seq(WR!Item)
  /\ currentBatchSize \in Nat
  /\ sealed \in Seq(Seq(WR!Item) \X Seq(Nat))

\* Everything past TxReceiverHandler: the batches sent to the processor,
\* the current batch, then the channel.
InFlight == FlattenSeq(BM!Batches) \o currentBatch \o queue["batch_maker"]

\* The transactions of each client connection go into the batches exactly
\* once and in the order the client sent them (spec 8, scenario 6, per
\* client), whatever the interleaving of the connection tasks, the waits
\* on the full channel, and the size and timer seals of the BatchMaker.
SealedInClientOrder ==
  \A c \in Conn : Listener[c] = "tx" =>
    SelectSeq(InFlight, LAMBDA it : it[1] = c) = [i \in 1..next[c] - 1 |-> <<c, i>>]

\* Latency is bounded (spec 4.1): every transaction TxReceiverHandler
\* has passed on is eventually in a sealed batch, by size or by the timer,
\* and a client that sends no malformed frame has all of its transactions
\* passed on, while the other connections and the boot interleave.
EveryTxSealed ==
  <>[](\A c \in Conn : Listener[c] = "tx" =>
         /\ Len(SelectSeq(FlattenSeq(BM!Batches), LAMBDA it : it[1] = c)) = next[c] - 1
         /\ "Malformed" \notin Range(Frames[c]) => next[c] = Len(Frames[c]) + 1)

====
