--------------------------- MODULE MC_Aggregators ---------------------------
(* A committee of four with unequal stakes: total 5, quorum_threshold     *)
(* 2 * 5 / 3 + 1 = 4.  Our header is h1 by a1; a1 equivocates with h2.    *)
EXTENDS Aggregators

CONSTANTS a1, a2, a3, a4, h1, h2, h3, h4

MCAuthority == {a1, a2, a3, a4}
MCStake == (a1 :> 2) @@ (a2 :> 1) @@ (a3 :> 1) @@ (a4 :> 1)
MCHeader == {h1, h2, h3, h4}
MCAuthor == (h1 :> a1) @@ (h2 :> a1) @@ (h3 :> a2) @@ (h4 :> a3)

====
