------------------------- MODULE MC_WorkerReceivers -------------------------
(* One worker with two client connections, one connection from a peer     *)
(* worker and one from its primary.                                        *)
EXTENDS WorkerReceivers

CONSTANTS t1, t2, w1, p1

MCConn == {t1, t2, w1, p1}

MCListener == (t1 :> "tx") @@ (t2 :> "tx") @@ (w1 :> "worker") @@ (p1 :> "primary")

\* Every kind of frame on every connection; t2's client sends a malformed
\* frame after its transactions.
FramesAll ==
  (t1 :> <<"Tx", "Tx">>) @@ (t2 :> <<"Tx", "Tx", "Malformed">>)
  @@ (w1 :> <<"Batch", "Malformed", "BatchRequest">>)
  @@ (p1 :> <<"Malformed", "PrimaryMsg">>)

\* A peer worker sends a batch, then asks for one; the primary sends one
\* well-formed message.
FramesForward ==
  (t1 :> <<>>) @@ (t2 :> <<>>) @@ (w1 :> <<"Batch", "BatchRequest">>)
  @@ (p1 :> <<"PrimaryMsg">>)

\* Two clients, the second sending one malformed transaction.
FramesMalformedTx ==
  (t1 :> <<"Tx">>) @@ (t2 :> <<"Malformed">>) @@ (w1 :> <<>>) @@ (p1 :> <<>>)

====
