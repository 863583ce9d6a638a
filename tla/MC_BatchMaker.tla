--------------------------- MODULE MC_BatchMaker ---------------------------
(* Seven client transactions. Identifiers are two bytes long and         *)
(* DIGEST_LEN is 3, as the client's 16-byte ids are padded to 32.  With  *)
(* batch_size 74 the pair <<a, b>> reaches it exactly, <<c, d>> exceeds it. *)
EXTENDS BatchMaker

CONSTANTS a, b, c, d, e, f, g

MCStream == <<a, b, c, d, e, f, g>>
\* Two-byte ids that start with 0, as the client's sample transactions do.
MCTxId == (a :> <<0, 1>>) @@ (b :> <<0, 2>>) @@ (c :> <<0, 3>>) @@ (d :> <<0, 4>>)
          @@ (e :> <<0, 5>>) @@ (f :> <<0, 6>>) @@ (g :> <<0, 7>>)
\* data.len(): each transaction adds data.len() + 32 bytes to its batch
MCTxDataLen == (a :> 0) @@ (b :> 10) @@ (c :> 20) @@ (d :> 10) @@ (e :> 0) @@ (f :> 20) @@ (g :> 0)
====
