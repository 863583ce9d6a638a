--------------------------- MODULE WorkerReceivers ---------------------------
(***************************************************************************)
(* The network side of a worker (src/worker/src/worker.rs).  Worker::spawn *)
(* runs handle_primary_messages, handle_clients_transactions and           *)
(* handle_workers_messages in turn.  Each creates the channels of its      *)
(* handler, spawns a network Receiver with the handler, and returns.  On   *)
(* return, every receiver half still owned by the function is dropped:     *)
(* rx_synchronizer (handle_primary_messages) and rx_helper/rx_processor    *)
(* (handle_workers_messages), whose consumers are commented out.           *)
(* rx_batch_maker is moved into the BatchMaker and lives on.               *)
(*                                                                         *)
(* Each connection is a task that dispatches its frames in order.  A       *)
(* dispatch that panics (an unwrap, or an expect on a failed send) ends    *)
(* that task.  A send on a full channel waits; a send on a channel whose   *)
(* receiver is gone fails at once.  The spawned Receivers run concurrently *)
(* with the rest of Worker::spawn, so a frame can be dispatched before its *)
(* channel's receiver is dropped.                                          *)
(***************************************************************************)
EXTENDS Integers, Sequences, SequencesExt

CONSTANTS
  Conn,             \* the connections accepted by the worker's Receivers
  Listener,         \* Listener[c] \in {"tx", "worker", "primary"}
  Frames,           \* Frames[c]: the frames the peer sends on c, in order
  CHANNEL_CAPACITY  \* capacity of every channel (CHANNEL_CAPACITY, line 21)

\* A frame is the kind its bytes deserialize to, or "Malformed".
FrameKinds == [tx      |-> {"Tx", "Malformed"},
               worker  |-> {"Batch", "BatchRequest", "Malformed"},
               primary |-> {"PrimaryMsg", "Malformed"}]

ASSUME /\ \A c \in Conn : Frames[c] \in Seq(FrameKinds[Listener[c]])
       /\ CHANNEL_CAPACITY \in Nat \ {0}

\* The frames a handler forwards, and the channel it forwards each to.
Target == [Tx |-> "batch_maker", BatchRequest |-> "helper",
           PrimaryMsg |-> "synchronizer"]

Channel == {"batch_maker", "helper", "synchronizer"}

VARIABLES
  boot,       \* how many steps of Worker::spawn have run (0..5)
  queue,      \* queue[ch]: the items in channel ch, an item being <<c, i>>
  next,       \* next[c]: the index of the frame c dispatches next
  panicked,   \* the connection tasks that have panicked
  taken,      \* the items the BatchMaker has received, in order
  discarded   \* the items dropped together with a receiver half

vars == <<boot, queue, next, panicked, taken, discarded>>

\* A Receiver dispatches once spawned: the primary one at step 1, the
\* client one at step 3, the worker one at step 4.
Listening(l) == boot >= [primary |-> 1, tx |-> 3, worker |-> 4][l]

\* A channel's receiver half exists from the step that creates the channel
\* until the step at which its owner returns (never, for batch_maker).
RxOpen(ch) ==
  CASE ch = "synchronizer" -> boot = 1
    [] ch = "batch_maker"  -> boot >= 3
    [] ch = "helper"       -> boot = 4

Init ==
  /\ boot = 0
  /\ queue = [ch \in Channel |-> <<>>]
  /\ next = [c \in Conn |-> 1]
  /\ panicked = {}
  /\ taken = <<>>
  /\ discarded = {}

-----------------------------------------------------------------------------
(* Worker::spawn and the three handle_* functions, one await-free step    *)
(* each, in program order.                                                 *)

\* handle_primary_messages up to Receiver::spawn: channel(CHANNEL_CAPACITY)
\* and the Receiver with PrimaryReceiverHandler { tx_synchronizer }.
SpawnPrimaryReceiver ==
  /\ boot = 0
  /\ boot' = 1
  /\ UNCHANGED <<queue, next, panicked, taken, discarded>>

\* Dropping a receiver half discards the items still in its channel.
DropReceiver(ch) ==
  /\ discarded' = discarded \cup Range(queue[ch])
  /\ queue' = [queue EXCEPT ![ch] = <<>>]

\* handle_primary_messages returns: rx_synchronizer is dropped.
DropSynchronizer ==
  /\ boot = 1
  /\ boot' = 2
  /\ DropReceiver("synchronizer")
  /\ UNCHANGED <<next, panicked, taken>>

\* handle_clients_transactions: the Receiver with TxReceiverHandler, the
\* BatchMaker owning rx_batch_maker, and the Processor.
HandleClientsTransactions ==
  /\ boot = 2
  /\ boot' = 3
  /\ UNCHANGED <<queue, next, panicked, taken, discarded>>

\* handle_workers_messages up to Receiver::spawn with WorkerReceiverHandler.
SpawnWorkerReceiver ==
  /\ boot = 3
  /\ boot' = 4
  /\ UNCHANGED <<queue, next, panicked, taken, discarded>>

\* handle_workers_messages returns: rx_helper and rx_processor are dropped
\* (Helper::spawn and Processor::spawnx are commented out).
DropHelper ==
  /\ boot = 4
  /\ boot' = 5
  /\ DropReceiver("helper")
  /\ UNCHANGED <<next, panicked, taken>>

-----------------------------------------------------------------------------
(* The connection tasks.                                                   *)

Frame(c) == Frames[c][next[c]]

\* A connection task can dispatch its next frame.
Ready(c) ==
  /\ Listening(Listener[c])
  /\ c \notin panicked
  /\ next[c] <= Len(Frames[c])

\* network::Receiver, when a dispatch panics (the unwrap at line 249, the
\* expects at 268, 305 and 332): the connection task ends, the frame not
\* consumed.
Panic(c) ==
  /\ panicked' = panicked \cup {c}
  /\ UNCHANGED <<queue, next>>

\* network::Receiver, when a dispatch returns Ok without sending (the
\* ignored Batch at 292-300, the logged errors at 306 and 327): the
\* connection goes on to its next frame.
Skip(c) ==
  /\ next' = [next EXCEPT ![c] = @ + 1]
  /\ UNCHANGED <<queue, panicked>>

\* Mutant of Forward: the send does not wait for room in the channel.
ForwardNoWait(c, ch) ==
  \/ /\ RxOpen(ch)
     /\ queue' = [queue EXCEPT ![ch] = Append(@, <<c, next[c]>>)]
     /\ next' = [next EXCEPT ![c] = @ + 1]
     /\ UNCHANGED panicked
  \/ /\ ~RxOpen(ch)
     /\ Panic(c)

\* send(..).await.expect(..) on channel ch: the item is queued once there is
\* room; if the receiver half is gone the send fails and expect panics.
Forward(c, ch) ==
  \/ /\ RxOpen(ch)
     /\ Len(queue[ch]) < CHANNEL_CAPACITY
     /\ queue' = [queue EXCEPT ![ch] = Append(@, <<c, next[c]>>)]
     /\ next' = [next EXCEPT ![c] = @ + 1]
     /\ UNCHANGED panicked
  \/ /\ ~RxOpen(ch)
     /\ Panic(c)

\* Mutant of TxReceiverHandler: a full channel drops the transaction
\* (try_send with the error ignored) instead of waiting.
TxDispatchTrySend(c) ==
  /\ Listener[c] = "tx"
  /\ Ready(c)
  /\ \/ Frame(c) = "Malformed" /\ Panic(c)
     \/ /\ Frame(c) = "Tx"
        /\ IF Len(queue["batch_maker"]) < CHANNEL_CAPACITY
           THEN Forward(c, "batch_maker")
           ELSE Skip(c)
  /\ UNCHANGED <<boot, taken, discarded>>

\* Mutant of TxReceiverHandler: the send waits for two free slots.
TxDispatchOffByOne(c) ==
  /\ Listener[c] = "tx"
  /\ Ready(c)
  /\ \/ Frame(c) = "Malformed" /\ Panic(c)
     \/ /\ Frame(c) = "Tx"
        /\ Len(queue["batch_maker"]) < CHANNEL_CAPACITY - 1
        /\ Forward(c, "batch_maker")
  /\ UNCHANGED <<boot, taken, discarded>>

\* TxReceiverHandler::dispatch: bincode::deserialize(..).unwrap() panics on
\* a malformed frame; a transaction is sent to the BatchMaker.
TxDispatch(c) ==
  /\ Listener[c] = "tx"
  /\ Ready(c)
  /\ \/ Frame(c) = "Malformed" /\ Panic(c)
     \/ Frame(c) = "Tx" /\ Forward(c, "batch_maker")
  /\ UNCHANGED <<boot, taken, discarded>>

\* WorkerReceiverHandler::dispatch: a Batch is ignored (its send to the
\* processor is commented out), a deserialize error is logged, and a
\* BatchRequest is sent to the helper.
WorkerDispatch(c) ==
  /\ Listener[c] = "worker"
  /\ Ready(c)
  /\ \/ Frame(c) \in {"Batch", "Malformed"} /\ Skip(c)
     \/ Frame(c) = "BatchRequest" /\ Forward(c, "helper")
  /\ UNCHANGED <<boot, taken, discarded>>

\* PrimaryReceiverHandler::dispatch: a deserialize error is logged; a
\* message is sent to the synchronizer.
PrimaryDispatch(c) ==
  /\ Listener[c] = "primary"
  /\ Ready(c)
  /\ \/ Frame(c) = "Malformed" /\ Skip(c)
     \/ Frame(c) = "PrimaryMsg" /\ Forward(c, "synchronizer")
  /\ UNCHANGED <<boot, taken, discarded>>

\* The BatchMaker's rx_transaction branch takes the next transaction.
BatchMakerReceive ==
  /\ queue["batch_maker"] # <<>>
  /\ taken' = Append(taken, Head(queue["batch_maker"]))
  /\ queue' = [queue EXCEPT !["batch_maker"] = Tail(@)]
  /\ UNCHANGED <<boot, next, panicked, discarded>>

Next ==
  \/ SpawnPrimaryReceiver \/ DropSynchronizer \/ HandleClientsTransactions
  \/ SpawnWorkerReceiver \/ DropHelper
  \/ \E c \in Conn : TxDispatch(c) \/ WorkerDispatch(c) \/ PrimaryDispatch(c)
  \/ BatchMakerReceive

Spec == Init /\ [][Next]_vars

-----------------------------------------------------------------------------
Item == Conn \X (Nat \ {0})

TypeOK ==
  /\ boot \in 0..5
  /\ queue \in [Channel -> Seq(Item)]
  /\ \A ch \in Channel : Len(queue[ch]) <= CHANNEL_CAPACITY
  /\ next \in [Conn -> Nat \ {0}]
  /\ panicked \subseteq Conn
  /\ taken \in Seq(Item)
  /\ discarded \subseteq Item

\* The handlers' comments say each well-formed message is handed on: a
\* BatchRequest to the Helper that replies to it (line 206), a primary
\* message to the synchronizer (line 325).  So no forwarded frame ever
\* stops its connection, and none is thrown away with a receiver half.
ForwardedFramesKept ==
  /\ discarded = {}
  /\ \A c \in panicked : Frame(c) \notin DOMAIN Target

\* spec 7: a frame that fails to deserialize is dropped and logged, and
\* the connection carries on; no connection task ends on a malformed frame.
MalformedFrameDropped ==
  \A c \in panicked : Frame(c) # "Malformed"

====
