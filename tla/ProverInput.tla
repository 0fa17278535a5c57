----------------------------- MODULE ProverInput -----------------------------
(***************************************************************************)
(* create_prover_input of crates/proof-coordinator/src/coordinator.rs: the *)
(* input of the prover for a batch, read from the rollup store and from    *)
(* the chain.  No request of the coordinator calls it yet.  The stores are *)
(* taken to be readable and the libraries for witnesses and blobs to work. *)
(***************************************************************************)
EXTENDS Naturals, Sequences

\* seal_batch of the rollup store, which is external, keeps the numbers first..last.
get_block_numbers_by_batch(batch) == batch.first .. batch.last

\* Mutant: block numbers that count from zero.
fetch_blocks_ZeroBased(chain, numbers) ==
  IF \A n \in numbers : n - 1 \in DOMAIN chain
  THEN [ok |-> TRUE, blocks |-> [n \in numbers |-> chain[n - 1].id]]
  ELSE [ok |-> FALSE]

fetch_blocks(chain, numbers) ==
  IF numbers \subseteq DOMAIN chain
  THEN [ok |-> TRUE, blocks |-> [n \in numbers |-> chain[n].id]]
  ELSE [ok |-> FALSE]   \* StorageDataIsNone

create_prover_input(rollup, chain, number) ==
  IF number \notin DOMAIN rollup THEN [ok |-> FALSE]   \* ItemNotFoundInStore
  ELSE LET fetched == fetch_blocks(chain, get_block_numbers_by_batch(rollup[number]))
       IN  IF fetched.ok /\ rollup[number].blobs # <<>>
           THEN [ok |-> TRUE, blocks |-> fetched.blocks, blobs |-> rollup[number].blobs]
           ELSE [ok |-> FALSE]                          \* or MissingBlob
=============================================================================
