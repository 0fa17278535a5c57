------------------------------ MODULE Sequencer ------------------------------
(***************************************************************************)
(* The block producer and the batch producer of a leader run as two tasks  *)
(* over the same stores: blocks, which survive the process, and the rollup *)
(* store, which is in memory.  A committer may listen to the batches, and  *)
(* the coordinator of proofs reads what they left in the stores.           *)
(***************************************************************************)
EXTENDS Naturals, Sequences, ProverInput

CONSTANTS
  Txs, Sender, Nonce, GasOf, LogSize, Fields, BlobTxs, Protected, BlockGas, TxGasCost,
  HeaderSize, SimpleTxSize, BlobSize, MaxAttempts,
  MaxBatchToBroadcast,
  MaxCrashes    \* bound: how often the process crashes

ASSUME SequencerBounds == MaxCrashes \in Nat /\ MaxAttempts \in Nat

\* The broadcast channel cannot be made without room for a batch.
ASSUME ChannelHasRoom == MaxBatchToBroadcast \in Nat \ {0}

VARIABLES
  canon, cache, attempts, pc, pool, queue, payload, gas, logs, fields, seen, rejected, lost,
  sealed, batch_counter, stage, first_block, current_block, bundle, state_root, result,
  inbox, lagged, closed, runner, held, published,
  crashes

Blocks == INSTANCE BlockProducer
Batches == INSTANCE BatchProducer
Submitter == INSTANCE Committer

blockVars == <<attempts, pc, pool, queue, payload, gas, logs, fields, seen, rejected, lost>>
batchVars == <<sealed, batch_counter, stage, first_block, current_block, bundle, state_root, result>>
committerVars == <<inbox, lagged, closed, runner, held, published>>
vars == <<canon, cache, blockVars, batchVars, committerVars, crashes>>

TypeOK ==
  /\ Blocks!TypeOK /\ Batches!TypeOK
  /\ Len(inbox) <= MaxBatchToBroadcast /\ Len(held) <= 1
  /\ runner \in {"off", "recv", "publish", "gossip", "ended"}
  /\ crashes \in 0..MaxCrashes

Init == Blocks!Init /\ Batches!Init /\ Submitter!CommitterInit /\ crashes = 0

\* The process ends and is started again: the block database is reopened and the
\* mempool and the rollup store are new.
Crash ==
  /\ crashes < MaxCrashes
  /\ crashes' = crashes + 1
  /\ cache' = [n \in DOMAIN cache |-> 0]
  /\ pc' = "idle"
  /\ queue' = {} /\ pool' = {} /\ payload' = <<>>
  /\ lost' = lost \cup pool \cup {payload[i] : i \in DOMAIN payload}
  /\ sealed' = <<>>
  /\ batch_counter' = 0
  /\ stage' = "idle"
  /\ result' = "none"
  /\ inbox' = <<>> /\ held' = <<>> /\ published' = <<>>
  /\ lagged' = FALSE /\ closed' = FALSE /\ runner' = "off"
  /\ UNCHANGED <<canon, attempts, gas, logs, fields, seen, rejected,
                 first_block, current_block, bundle, state_root>>

BlockStep == Blocks!Next /\ UNCHANGED <<batchVars, committerVars, crashes>>

\* The message for the batch that was sealed last; its id stands for the batch number.
Message == [id |-> batch_counter, body |-> sealed[batch_counter]]

\* handle_request of the batch producer sends the batch it has sealed to the committer, if
\* there is one; a new epoch has a new producer, and with it a new channel.
BatchStep ==
  /\ \/ Batches!build_batch /\ UNCHANGED committerVars
     \/ /\ Batches!Broadcast
        /\ IF Submitter!Listening
           THEN result' = "batch" /\ Submitter!Send(Message)
           ELSE result' = "sendError" /\ UNCHANGED committerVars
     \/ Batches!NewEpoch /\ Submitter!Close
  /\ UNCHANGED <<blockVars, crashes>>

CommitterStep ==
  /\ Submitter!Subscribe \/ Submitter!CommitterNext
  /\ UNCHANGED <<canon, cache, blockVars, batchVars, crashes>>

Next == BlockStep \/ BatchStep \/ CommitterStep \/ Crash

Spec == Init /\ [][Next]_vars

-----------------------------------------------------------------------------
(* Properties of the two together *)

\* Each sealed batch holds the updates and the state root of the canonical blocks it
\* starts with, although blocks are built, fail and are cached while it is prepared.
BatchMatchesChain == Batches!BatchMatchesChain

\* The batch that the counter names is the newest of the rollup store.
LastBatchIsStored == Batches!LastBatchIsStored

\* The block ranges claimed by the sealed batches follow one another from block 1.
RangesFollow == Batches!RangesFollow

\* "Any remaining blocks will be processed in the next batch": no canonical block is
\* left out between the blobs of two batches.
RemainingBlocksInNextBatch == Batches!RemainingBlocksInNextBatch

\* The batches that a committer publishes, holds and has before it are consecutive, as
\* long as the channel has not overflowed, and what it has published always is: it ends
\* rather than leave a batch out.
NoBatchSkipped ==
  LET Consecutive(s) == \A i \in 1..(Len(s) - 1) : s[i + 1].id = s[i].id + 1
  IN  /\ Consecutive(published)
      /\ ~lagged => Consecutive(published \o (IF runner = "gossip" THEN <<>> ELSE held) \o inbox)

\* The input of the prover can be made for every batch but the newest, and its blocks
\* start with those whose updates are in the blobs.  (The newest batch claims a block
\* that may not exist yet.)
OlderBatchesAreProvable ==
  \A b \in DOMAIN sealed : b < Len(sealed) =>
    LET input == create_prover_input(sealed, canon, b)
    IN  input.ok /\ \A i \in DOMAIN input.blobs : input.blobs[i] = input.blocks[sealed[b].first + i - 1]

=============================================================================
