-------------------------- MODULE ElectionConsensus --------------------------
(***************************************************************************)
(* What the election protocol promises (spec 1 and 8.1-8.2): each          *)
(* election, identified by the input it spends, is decided for at most    *)
(* one transaction, at one moment, and is never decided again or undone. *)
(***************************************************************************)
CONSTANTS
  ElectionId,  \* the elections, one per spent input
  TxHash       \* the transactions an election may decide

VARIABLE
  chosen       \* chosen[e]: {} while e is open, {x} once it decided x

Init == chosen = [e \in ElectionId |-> {}]

\* An open election decides one transaction.
Decide(e, x) ==
  /\ chosen[e] = {}
  /\ chosen' = [chosen EXCEPT ![e] = {x}]

Next == \E e \in ElectionId, x \in TxHash : Decide(e, x)

Spec == Init /\ [][Next]_chosen

====
