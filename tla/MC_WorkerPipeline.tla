------------------------- MODULE MC_WorkerPipeline -------------------------
(* One worker with two client connections, one connection from a peer     *)
(* worker and one from its primary, feeding one BatchMaker.               *)
EXTENDS WorkerPipeline

CONSTANTS t1, t2, w1, p1

MCConn == {t1, t2, w1, p1}

MCListener == (t1 :> "tx") @@ (t2 :> "tx") @@ (w1 :> "worker") @@ (p1 :> "primary")

\* Every kind of frame on every connection; t2's client sends a malformed
\* frame after its transaction, so three transactions reach the BatchMaker.
MCFrames ==
  (t1 :> <<"Tx", "Tx">>) @@ (t2 :> <<"Tx", "Malformed">>)
  @@ (w1 :> <<"Batch", "Malformed", "BatchRequest">>)
  @@ (p1 :> <<"Malformed", "PrimaryMsg">>)

\* Distinct ids: the connection's index and the frame's.
MCTxId == [it \in {t1, t2} \X (1..2) |-> <<IF it[1] = t1 THEN 1 ELSE 2, it[2]>>]

\* A transaction adds data.len() + 32 bytes: with batch_size 64, two
\* transactions reach it exactly, or exceed it when t1's first is one of
\* them; the third is left for the timer.
MCTxDataLen == [it \in {t1, t2} \X (1..2) |-> IF it = <<t1, 1>> THEN 10 ELSE 0]
====
