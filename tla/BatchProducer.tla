---------------------------- MODULE BatchProducer ----------------------------
(***************************************************************************)
(* crates/batch-producer: build_batch collects the canonical blocks after  *)
(* the last batch, seals them as the next batch in the rollup store, and   *)
(* hands the batch to its subscribers.  The loop over the blocks awaits    *)
(* the stores, so blocks appear while it runs.                             *)
(*                                                                         *)
(* A block is the id of the attempt that built it.  The account updates    *)
(* put into the blobs of a batch are those cached for the block number, or *)
(* those of re-executing the block, and carry the id of their block.  The  *)
(* number of a batch is its place in the rollup store; batch 0 is the      *)
(* genesis block.  The blobs of a batch are named by the updates that      *)
(* prepare_state_diff is called with for them; the code of that function   *)
(* is a stub that ignores them.  Whether blobs can be made is up to the    *)
(* KZG library.                                                            *)
(***************************************************************************)
EXTENDS Naturals, Sequences

VARIABLES
  canon,          \* the canonical chain, written by the block producer
  cache,          \* the cached updates by block number, written by it too
  sealed,         \* the batches in the rollup store
  batch_counter,
  stage,          \* where build_batch is
  first_block,
  current_block,
  bundle,         \* blobs_bundle, by the updates it was made for
  state_root,     \* the block whose state root the batch gets
  result          \* how the last BuildBatch request ended

chainVars == <<canon, cache>>
loopVars == <<first_block, current_block, bundle, state_root>>
batchVars == <<sealed, batch_counter, stage, loopVars, result>>

Results == {"none", "batch", "sendError", "noHeader", "blobError", "storeError"}

TypeOK ==
  /\ sealed \in Seq([first : Nat \ {0}, last : Nat \ {0}, blobs : Seq(Nat), root : Nat \ {0}])
  /\ batch_counter \in Nat
  /\ stage \in {"idle", "loop", "seal", "send"}
  /\ first_block \in Nat /\ current_block \in Nat
  /\ bundle \in Seq(Nat)
  /\ state_root \in Nat
  /\ result \in Results

Init ==
  /\ sealed = <<>>
  /\ batch_counter = 0
  /\ stage = "idle"
  /\ first_block = 0 /\ current_block = 0
  /\ bundle = <<>>
  /\ state_root = 0
  /\ result = "none"

-----------------------------------------------------------------------------
\* Mutant: the first block of the batch is taken for its last.
LastBlock_First(n) == IF n = 0 THEN 0 ELSE sealed[n].first

\* get_last_committed_block: the last block of a batch in the rollup store.
LastBlock(n) == IF n = 0 THEN 0 ELSE sealed[n].last

\* load_or_execute_updates
Updates(n) == IF cache[n] # 0 THEN cache[n] ELSE canon[n].id

\* add_block_data: the updates of block n are merged into those before it.
Accumulated(n) == Append(bundle, Updates(n))

\* The request ends with r and leaves no batch.
End(r) ==
  /\ stage' = "idle"
  /\ result' = r
  /\ UNCHANGED <<chainVars, sealed, batch_counter, loopVars>>

\* create_parent_database needs the header of the first block.
NoFirstHeader ==
  /\ stage = "idle"
  /\ LastBlock(batch_counter) + 1 > Len(canon)
  /\ End("noHeader")

BeginBatch ==
  /\ stage = "idle"
  /\ LastBlock(batch_counter) + 1 <= Len(canon)
  /\ stage' = "loop"
  /\ first_block' = LastBlock(batch_counter) + 1
  /\ current_block' = LastBlock(batch_counter) + 1
  /\ bundle' = <<>>
  /\ state_root' = 0
  /\ UNCHANGED <<chainVars, sealed, batch_counter, result>>

\* Mutant: the state root is taken from the newest block.
AddBlock_NewestRoot ==
  /\ stage = "loop"
  /\ current_block <= Len(canon)
  /\ bundle' = Accumulated(current_block)
  /\ state_root' = canon[Len(canon)].id
  /\ current_block' = current_block + 1
  /\ UNCHANGED <<chainVars, sealed, batch_counter, stage, first_block, result>>

AddBlock ==
  /\ stage = "loop"
  /\ current_block <= Len(canon)
  /\ bundle' = Accumulated(current_block)
  /\ state_root' = canon[current_block].id
  /\ current_block' = current_block + 1
  /\ UNCHANGED <<chainVars, sealed, batch_counter, stage, first_block, result>>

\* No blobs can be made of the blocks so far: an error for the first block; else the
\* batch is what was collected before.
BlobsFailFirst ==
  /\ stage = "loop"
  /\ current_block <= Len(canon)
  /\ current_block = first_block
  /\ End("blobError")

BlobsFail ==
  /\ stage = "loop"
  /\ current_block <= Len(canon)
  /\ current_block # first_block
  /\ stage' = "seal"
  /\ UNCHANGED <<chainVars, sealed, batch_counter, loopVars, result>>

NoMoreBlocks ==
  /\ stage = "loop"
  /\ current_block > Len(canon)
  /\ stage' = "seal"
  /\ UNCHANGED <<chainVars, sealed, batch_counter, loopVars, result>>

\* last_block is current_block, the block after the last one collected.
Batch == [first |-> first_block, last |-> current_block, blobs |-> bundle, root |-> state_root]

\* seal_batch under the next number, then the counter is increased.
Seal ==
  /\ stage = "seal"
  /\ sealed' = [n \in DOMAIN sealed \cup {batch_counter + 1} |->
                  IF n = batch_counter + 1 THEN Batch ELSE sealed[n]]
  /\ batch_counter' = batch_counter + 1
  /\ stage' = "send"
  /\ UNCHANGED <<chainVars, loopVars, result>>

\* Mutant: the counter was increased before the failing call.
StoreFails_Counted ==
  /\ stage \in {"loop", "seal"}
  /\ batch_counter' = batch_counter + 1
  /\ stage' = "idle"
  /\ result' = "storeError"
  /\ UNCHANGED <<chainVars, sealed, loopVars>>

\* A store, the re-execution of a block or seal_batch fails, and the request with it.
StoreFails ==
  /\ stage \in {"loop", "seal"}
  /\ End("storeError")

\* The broadcast channel takes the batch if anybody has subscribed.
Broadcast ==
  /\ stage = "send"
  /\ \E r \in {"batch", "sendError"} : End(r)

\* Mutant: the counter starts again from zero.
NewEpoch_FromZero ==
  /\ stage = "idle"
  /\ batch_counter' = 0
  /\ result' = "none"
  /\ UNCHANGED <<chainVars, sealed, stage, loopVars>>

\* start_leader_tasks of a new epoch makes a BatchProducer with the number of the
\* last sealed batch; the old one has ended between two requests.
NewEpoch ==
  /\ stage = "idle"
  /\ batch_counter' = Len(sealed)
  /\ result' = "none"
  /\ UNCHANGED <<chainVars, sealed, stage, loopVars>>

build_batch ==
  \/ NoFirstHeader \/ BeginBatch
  \/ AddBlock \/ BlobsFailFirst \/ BlobsFail \/ NoMoreBlocks
  \/ Seal \/ StoreFails

Next == build_batch \/ Broadcast \/ NewEpoch

-----------------------------------------------------------------------------
(* Properties *)

\* The block up to which the blobs of batch b go.
LastInBlobs(b) == sealed[b].first + Len(sealed[b].blobs) - 1

\* The blobs of a batch hold the updates of consecutive canonical blocks, each
\* block's own, from its first block on, and its state root is the one after the
\* last of them, although blocks were built and cached while it was prepared.
BatchMatchesChain ==
  \A b \in DOMAIN sealed :
    /\ sealed[b].blobs # <<>>
    /\ LastInBlobs(b) <= Len(canon)
    /\ \A i \in DOMAIN sealed[b].blobs : sealed[b].blobs[i] = canon[sealed[b].first + i - 1].id
    /\ sealed[b].root = canon[LastInBlobs(b)].id

\* "Batch is missing when it should be present. This is a bug": the batch that the
\* counter names, from whose last block the next batch goes on, is the newest one in
\* the store, after failed requests and in a new epoch too.
LastBatchIsStored == batch_counter = Len(sealed)

\* The block ranges that the sealed batches claim follow one another from block 1,
\* across the epochs of a leader: none overlaps another or is sealed again.
RangesFollow ==
  \A b \in DOMAIN sealed :
    /\ sealed[b].first = IF b = 1 THEN 1 ELSE sealed[b - 1].last + 1
    /\ sealed[b].first <= sealed[b].last

\* "Batch size limit reached. Any remaining blocks will be processed in the next
\* batch": the blobs of a batch start where those of the batch before it end.
RemainingBlocksInNextBatch ==
  \A b \in DOMAIN sealed : b > 1 => sealed[b].first = LastInBlobs(b - 1) + 1

=============================================================================
