----------------------------- MODULE MCSequencer -----------------------------
(* Blocks without transactions: what matters here is their order. *)
EXTENDS Sequencer, TLC

NoTx == [t \in {} |-> 0]
=============================================================================
