--------------------------- MODULE MCBlockProducer ---------------------------
(***************************************************************************)
(* Three transactions of one sender, two of them with the same nonce, one  *)
(* of another sender, a replay-protected one and two blob transactions of  *)
(* one sender.  A blob has room for the header and two transactions that   *)
(* change a common field, but not for any two.                             *)
(***************************************************************************)
EXTENDS BlockProducer, TLC

CONSTANTS a0, r0, a1, b0, c0, x0, x1

AllTxs == {a0, r0, a1, b0, c0, x0, x1}
MCSender == (a0 :> "a") @@ (r0 :> "a") @@ (a1 :> "a") @@ (b0 :> "b") @@ (c0 :> "c") @@ [t \in {x0, x1} |-> "x"]
MCNonce == [t \in {a1, x1} |-> 1] @@ [t \in AllTxs |-> 0]
MCGasOf == (b0 :> 3) @@ [t \in AllTxs |-> 2]
MCLogSize == (a1 :> 1) @@ [t \in AllTxs |-> 0]
MCFields == (a0 :> {"a", "z"}) @@ (r0 :> {"a"}) @@ (a1 :> {"a", "z"}) @@ (b0 :> {"b", "z"}) @@ [t \in AllTxs |-> {"c"}]
=============================================================================
