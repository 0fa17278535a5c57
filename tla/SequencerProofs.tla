--------------------------- MODULE SequencerProofs ---------------------------
(***************************************************************************)
(* Proofs about the batches of the sequencer, for any number of blocks,    *)
(* batches, epochs and crashes: what a batch holds and which blocks, when  *)
(* it can be proved, and which batches a committer publishes, for any      *)
(* capacity of its channel.                                                *)
(***************************************************************************)
EXTENDS Sequencer, SequenceTheorems, TLAPS

CanonBlock == [id : Nat, txs : Seq(Txs)]
SealedBatch == [first : Nat, last : Nat, blobs : Seq(Nat), root : Nat]

-----------------------------------------------------------------------------
(* The chain and the cached updates. *)

\* The updates cached under the number of a canonical block are that block's, because
\* between caching and apply_fork_choice the entry is the one of the block being built.
ChainInv ==
  /\ canon \in Seq(CanonBlock) /\ payload \in Seq(Txs)
  /\ cache \in [1..MaxAttempts -> Nat]
  /\ attempts \in 0..MaxAttempts
  /\ Len(canon) <= attempts
  /\ pc # "idle" => Len(canon) < attempts
  /\ pc = "cached" => cache[Len(canon) + 1] = attempts
  /\ \A n \in DOMAIN canon : cache[n] \in {0, canon[n].id}

\* The chain only grows.
Grows == Len(canon) <= Len(canon') /\ \A n \in DOMAIN canon : n \in DOMAIN canon' /\ canon'[n] = canon[n]

LEMMA ChainInvInitially == Init => ChainInv
BY SequencerBounds, EmptySeq DEF Init, Blocks!Init, ChainInv

\* The transactions that come and go while a payload is filled do not touch the chain.
LEMMA FillingKeepsChain ==
  ASSUME ChainInv, NEW t \in Txs, Blocks!AddTx(t) \/ Blocks!Fill(t)
  PROVE  payload' \in Seq(Txs) /\ UNCHANGED <<canon, cache, attempts, pc>>
<1> USE DEF Blocks!chainVars, Blocks!fillVars, Blocks!poolVars, ChainInv
<1>1. CASE Blocks!Include(t)
  BY <1>1, AppendProperties DEF Blocks!Include
<1>2. CASE Blocks!AddTx(t)  BY <1>2 DEF Blocks!AddTx
<1>3. CASE Blocks!SkipForGas(t)  BY <1>3 DEF Blocks!SkipForGas
<1>4. CASE Blocks!Reject(t)  BY <1>4 DEF Blocks!Reject
<1>5. CASE Blocks!ExecutionFails(t)  BY <1>5 DEF Blocks!ExecutionFails
<1>6. CASE Blocks!TooBig(t)  BY <1>6 DEF Blocks!TooBig
<1> QED  BY <1>1, <1>2, <1>3, <1>4, <1>5, <1>6 DEF Blocks!Fill

LEMMA ChainStep == ChainInv /\ [Next]_vars => ChainInv' /\ Grows
<1> SUFFICES ASSUME ChainInv, [Next]_vars PROVE ChainInv' /\ Grows
  OBVIOUS
<1> USE DEF Blocks!chainVars, Blocks!fillVars, Blocks!poolVars
<1>0. Len(canon) \in Nat /\ DOMAIN canon = 1..Len(canon) /\ MaxAttempts \in Nat
  BY SequencerBounds, LenProperties DEF ChainInv
<1>1. ASSUME canon' = canon, cache' = cache, attempts' = attempts, pc' \in {pc, "idle"},
             payload' \in Seq(Txs)
      PROVE  ChainInv' /\ Grows
  BY <1>0, <1>1 DEF ChainInv, Grows
<1>2. ASSUME NEW t \in Txs, Blocks!AddTx(t) \/ Blocks!Fill(t) PROVE ChainInv' /\ Grows
  BY <1>1, <1>2, FillingKeepsChain
<1>3. CASE Blocks!BeginBuild
  <2>1. /\ attempts < MaxAttempts /\ attempts' = attempts + 1 /\ pc' = "filling"
        /\ payload' = <<>> /\ canon' = canon /\ cache' = cache
    BY <1>3 DEF Blocks!BeginBuild
  <2> QED  BY <1>0, <2>1, EmptySeq DEF ChainInv, Grows
<1>4. CASE Blocks!StoreBlock
  BY <1>0, <1>4 DEF Blocks!StoreBlock, ChainInv, Grows
<1>5. CASE Blocks!StoreUpdates
  <2>1. /\ pc = "stored" /\ pc' = "cached"
        /\ cache' = [cache EXCEPT ![Len(canon) + 1] = attempts]
        /\ UNCHANGED <<canon, attempts, payload>>
    BY <1>5 DEF Blocks!StoreUpdates
  <2>2. Len(canon) + 1 \in 1..MaxAttempts
    BY <1>0, <2>1 DEF ChainInv
  <2> QED  BY <1>0, <2>1, <2>2 DEF ChainInv, Grows
<1>6. CASE Blocks!ApplyForkChoice
  <2> DEFINE b == [id |-> attempts, txs |-> payload]
  <2>1. /\ pc = "cached" /\ pc' = "idle" /\ canon' = Append(canon, b)
        /\ payload' = <<>> /\ UNCHANGED <<cache, attempts>>
    BY <1>6 DEF Blocks!ApplyForkChoice
  <2>2. b \in CanonBlock /\ b.id = attempts
    BY DEF ChainInv, CanonBlock
  <2> HIDE DEF b
  <2>3. /\ canon' \in Seq(CanonBlock) /\ Len(canon') = Len(canon) + 1
        /\ DOMAIN canon' = 1..(Len(canon) + 1)
        /\ \A n \in 1..Len(canon) : canon'[n] = canon[n]
        /\ canon'[Len(canon) + 1] = b
    BY <2>1, <2>2, AppendProperties, LenProperties DEF ChainInv
  <2>4. \A n \in DOMAIN canon' : cache'[n] \in {0, canon'[n].id}
    BY <1>0, <2>1, <2>2, <2>3 DEF ChainInv
  <2> QED  BY <1>0, <2>1, <2>3, <2>4, EmptySeq DEF ChainInv, Grows
<1>7. CASE Blocks!BuildFails
  BY <1>1, <1>7, EmptySeq DEF Blocks!BuildFails
<1>8. CASE Blocks!Exhausted
  BY <1>1, <1>8 DEF Blocks!Exhausted, Blocks!vars, ChainInv
<1>9. CASE BlockStep
  BY <1>2, <1>3, <1>4, <1>5, <1>6, <1>7, <1>8, <1>9 DEF BlockStep, Blocks!Next
<1>10. CASE Crash
  <2>1. /\ canon' = canon /\ attempts' = attempts /\ pc' = "idle" /\ payload' = <<>>
        /\ cache' = [n \in DOMAIN cache |-> 0]
    BY <1>10 DEF Crash
  <2>2. cache' \in [1..MaxAttempts -> Nat] /\ \A n \in 1..MaxAttempts : cache'[n] = 0
    BY <2>1 DEF ChainInv
  <2>3. \A n \in DOMAIN canon : n \in 1..MaxAttempts
    BY <1>0 DEF ChainInv
  <2> QED  BY <1>0, <2>1, <2>2, <2>3, EmptySeq DEF ChainInv, Grows
<1>11. CASE BatchStep
  <2>1. UNCHANGED <<canon, cache>>
    BY <1>11 DEF BatchStep, Batches!build_batch, Batches!NoFirstHeader, Batches!BeginBatch,
       Batches!AddBlock, Batches!BlobsFailFirst, Batches!BlobsFail, Batches!NoMoreBlocks,
       Batches!Seal, Batches!StoreFails, Batches!Broadcast, Batches!NewEpoch, Batches!End,
       Batches!chainVars
  <2> QED  BY <1>1, <1>11, <2>1 DEF BatchStep, blockVars, ChainInv
<1>12. CASE CommitterStep
  BY <1>1, <1>12 DEF CommitterStep, blockVars, ChainInv
<1>13. CASE UNCHANGED vars
  BY <1>1, <1>13 DEF vars, blockVars, ChainInv
<1> QED  BY <1>9, <1>10, <1>11, <1>12, <1>13 DEF Next

-----------------------------------------------------------------------------
(* The batches. *)

\* What BatchMatchesChain says of one batch and a chain.
Matches(batch, chain) ==
  LET last == batch.first + Len(batch.blobs) - 1
  IN  /\ batch.blobs # <<>>
      /\ last <= Len(chain)
      /\ \A i \in DOMAIN batch.blobs : batch.blobs[i] = chain[batch.first + i - 1].id
      /\ batch.root = chain[last].id

\* build_batch is under way: its blobs are those of the blocks from the one after the
\* last sealed batch up to, and without, current_block.
OpenInv ==
  /\ first_block = IF Len(sealed) = 0 THEN 1 ELSE sealed[Len(sealed)].last + 1
  /\ first_block \in Nat \ {0} /\ first_block <= Len(canon)
  /\ bundle \in Seq(Nat) /\ current_block = first_block + Len(bundle)
  /\ current_block <= Len(canon) + 1
  /\ \A i \in 1..Len(bundle) : bundle[i] = canon[first_block + i - 1].id
  /\ state_root \in Nat
  /\ Len(bundle) > 0 => state_root = canon[current_block - 1].id
  /\ stage = "seal" => Len(bundle) > 0

BatchInv ==
  /\ sealed \in Seq(SealedBatch)
  /\ \A b \in DOMAIN sealed : sealed[b].first > 0
  /\ stage \in {"loop", "seal"} => OpenInv
  /\ LastBatchIsStored
  /\ BatchMatchesChain
  /\ RangesFollow

LEMMA MatchesEach == BatchMatchesChain <=> \A b \in DOMAIN sealed : Matches(sealed[b], canon)
BY DEF BatchMatchesChain, Batches!BatchMatchesChain, Batches!LastInBlobs, Matches

LEMMA MatchesEachNext ==
  BatchMatchesChain' <=> \A b \in DOMAIN sealed' : Matches(sealed'[b], canon')
BY DEF BatchMatchesChain, Batches!BatchMatchesChain, Batches!LastInBlobs, Matches

LEMMA IndexInside ==
  ASSUME NEW f \in Nat, NEW n \in Nat, NEW m \in Nat, f > 0, f + n <= m + 1
  PROVE  /\ \A i \in 1..n : f + i - 1 \in 1..m
         /\ n > 0 => f + n - 1 \in 1..m
OBVIOUS

\* A block that becomes canonical does not change what a batch was made of.
LEMMA MatchesStays ==
  ASSUME ChainInv, ChainInv', Grows, NEW batch \in SealedBatch, batch.first > 0,
         Matches(batch, canon)
  PROVE  Matches(batch, canon')
<1>1. /\ Len(canon) \in Nat /\ DOMAIN canon = 1..Len(canon) /\ Len(canon') \in Nat
      /\ Len(batch.blobs) \in Nat /\ DOMAIN batch.blobs = 1..Len(batch.blobs)
      /\ batch.first \in Nat
      /\ batch.blobs # <<>> => Len(batch.blobs) > 0
  BY LenProperties, EmptySeq DEF ChainInv, SealedBatch
<1>2. Len(batch.blobs) > 0 /\ batch.first + Len(batch.blobs) <= Len(canon) + 1
  BY <1>1 DEF Matches
<1>3. /\ \A i \in 1..Len(batch.blobs) : batch.first + i - 1 \in DOMAIN canon
      /\ batch.first + Len(batch.blobs) - 1 \in DOMAIN canon
  BY <1>1, <1>2, IndexInside, Zenon
<1>4. /\ \A i \in 1..Len(batch.blobs) : canon'[batch.first + i - 1] = canon[batch.first + i - 1]
      /\ canon'[batch.first + Len(batch.blobs) - 1] = canon[batch.first + Len(batch.blobs) - 1]
  BY <1>3 DEF Grows
<1>5. batch.first + Len(batch.blobs) - 1 <= Len(canon')
  BY <1>1, <1>2 DEF Grows
<1>6. \A i \in DOMAIN batch.blobs : batch.blobs[i] = canon'[batch.first + i - 1].id
  BY <1>1, <1>4, Zenon DEF Matches
<1>7. batch.root = canon'[batch.first + Len(batch.blobs) - 1].id
  BY <1>4 DEF Matches
<1> QED  BY <1>5, <1>6, <1>7 DEF Matches

\* Steps of the others: the chain may grow, the batch producer does not move, or goes back
\* to waiting for a request.
LEMMA BatchesAreLeft ==
  ASSUME ChainInv, ChainInv', Grows, BatchInv, UNCHANGED <<sealed, batch_counter>>,
         stage' = "idle" \/ stage' = "send"
           \/ UNCHANGED <<stage, first_block, current_block, bundle, state_root>>
  PROVE  BatchInv'
<1>1. BatchMatchesChain'
  <2>1. \A b \in DOMAIN sealed : sealed[b] \in SealedBatch
    BY LenProperties DEF BatchInv
  <2> QED  BY <2>1, MatchesEach, MatchesEachNext, MatchesStays DEF BatchInv
<1>2. LastBatchIsStored' /\ RangesFollow'
  BY DEF BatchInv, LastBatchIsStored, Batches!LastBatchIsStored, RangesFollow, Batches!RangesFollow
<1>3. stage' \in {"loop", "seal"} => OpenInv'
  <2> SUFFICES ASSUME stage' \in {"loop", "seal"} PROVE OpenInv'
    OBVIOUS
  <2>1. OpenInv /\ UNCHANGED <<sealed, stage, first_block, current_block, bundle, state_root>>
    BY DEF BatchInv
  <2>2. /\ Len(canon) \in Nat /\ DOMAIN canon = 1..Len(canon) /\ Len(canon') \in Nat
        /\ Len(bundle) \in Nat
    BY <2>1, LenProperties DEF ChainInv, OpenInv
  <2>3. /\ first_block \in Nat /\ first_block > 0 /\ first_block + Len(bundle) <= Len(canon) + 1
        /\ current_block = first_block + Len(bundle)
    BY <2>1 DEF OpenInv
  <2>4. /\ \A i \in 1..Len(bundle) : first_block + i - 1 \in DOMAIN canon
        /\ Len(bundle) > 0 => current_block - 1 \in DOMAIN canon
    BY <2>2, <2>3, IndexInside
  <2>5. /\ \A i \in 1..Len(bundle) : canon'[first_block + i - 1] = canon[first_block + i - 1]
        /\ Len(bundle) > 0 => canon'[current_block - 1] = canon[current_block - 1]
    BY <2>4 DEF Grows
  <2>6. first_block <= Len(canon') /\ current_block <= Len(canon') + 1
    BY <2>1, <2>2, <2>3 DEF OpenInv, Grows
  <2>7. /\ \A i \in 1..Len(bundle) : bundle[i] = canon'[first_block + i - 1].id
        /\ Len(bundle) > 0 => state_root = canon'[current_block - 1].id
    BY <2>1, <2>5, Zenon DEF OpenInv
  <2> QED  BY <2>1, <2>6, <2>7 DEF OpenInv
<1> QED  BY <1>1, <1>2, <1>3 DEF BatchInv

\* While a batch is collected only loop variables change.
LEMMA CollectingKeeps ==
  ASSUME BatchInv, UNCHANGED <<canon, sealed, batch_counter>>, OpenInv' PROVE BatchInv'
BY MatchesEach, MatchesEachNext
DEF BatchInv, LastBatchIsStored, Batches!LastBatchIsStored, RangesFollow, Batches!RangesFollow

LEMMA BeginBatchKeeps == ASSUME ChainInv, BatchInv, Batches!BeginBatch PROVE BatchInv'
<1>1. batch_counter = Len(sealed) /\ Len(canon) \in Nat /\ Len(sealed) \in Nat
  BY LenProperties DEF ChainInv, BatchInv, LastBatchIsStored, Batches!LastBatchIsStored
<1>2. Len(sealed) # 0 => sealed[Len(sealed)].last \in Nat
  <2>1. Len(sealed) # 0 => Len(sealed) \in DOMAIN sealed
    BY <1>1, LenProperties DEF BatchInv
  <2>2. \A b \in DOMAIN sealed : sealed[b] \in SealedBatch
    BY LenProperties DEF BatchInv
  <2> QED  BY <2>1, <2>2 DEF SealedBatch
<1>3. /\ stage' = "loop" /\ first_block' = Batches!LastBlock(batch_counter) + 1
      /\ current_block' = first_block' /\ bundle' = <<>> /\ state_root' = 0
      /\ UNCHANGED <<canon, sealed, batch_counter>>
      /\ first_block' <= Len(canon)
  BY DEF Batches!BeginBatch, Batches!chainVars
<1>4. /\ first_block' = IF Len(sealed) = 0 THEN 1 ELSE sealed[Len(sealed)].last + 1
      /\ first_block' \in Nat \ {0}
  BY <1>1, <1>2, <1>3 DEF Batches!LastBlock
<1>5. bundle' \in Seq(Nat) /\ Len(bundle') = 0
  BY <1>3, EmptySeq
<1>6. OpenInv'
  BY <1>1, <1>3, <1>4, <1>5 DEF OpenInv
<1> QED  BY <1>3, <1>6, CollectingKeeps

\* The updates of a block are those cached for its number or its own.
LEMMA AddBlockKeeps == ASSUME ChainInv, BatchInv, Batches!AddBlock PROVE BatchInv'
<1>1. /\ stage = "loop" /\ stage' = stage /\ OpenInv /\ current_block <= Len(canon)
      /\ bundle' = Append(bundle, Batches!Updates(current_block))
      /\ state_root' = canon[current_block].id
      /\ current_block' = current_block + 1
      /\ UNCHANGED <<canon, sealed, batch_counter, first_block>>
  BY DEF Batches!AddBlock, Batches!Accumulated, Batches!chainVars, BatchInv
<1>2. /\ Len(canon) \in Nat /\ DOMAIN canon = 1..Len(canon) /\ Len(bundle) \in Nat
      /\ first_block \in Nat /\ first_block > 0 /\ current_block = first_block + Len(bundle)
  BY <1>1, LenProperties DEF ChainInv, OpenInv
<1>3. current_block \in DOMAIN canon
  BY <1>1, <1>2
<1>4. canon[current_block].id \in Nat /\ Batches!Updates(current_block) = canon[current_block].id
  <2>1. canon[current_block] \in CanonBlock
    BY <1>3, LenProperties DEF ChainInv
  <2>2. cache[current_block] \in {0, canon[current_block].id}
    BY <1>3 DEF ChainInv
  <2> QED  BY <2>1, <2>2 DEF CanonBlock, Batches!Updates
<1>5. /\ bundle' \in Seq(Nat) /\ Len(bundle') = Len(bundle) + 1
      /\ \A i \in 1..Len(bundle) : bundle'[i] = bundle[i]
      /\ bundle'[Len(bundle) + 1] = canon[current_block].id
  <2>1. bundle \in Seq(Nat)
    BY <1>1 DEF OpenInv
  <2> DEFINE id == canon[current_block].id
  <2>2. id \in Nat /\ bundle' = Append(bundle, id)
    BY <1>1, <1>4
  <2> HIDE DEF id
  <2>3. /\ bundle' \in Seq(Nat) /\ Len(bundle') = Len(bundle) + 1
        /\ \A i \in 1..Len(bundle) : bundle'[i] = bundle[i]
        /\ bundle'[Len(bundle) + 1] = id
    BY <2>1, <2>2, AppendProperties
  <2> QED  BY <2>3 DEF id
<1>6. \A i \in 1..Len(bundle') : bundle'[i] = canon[first_block + i - 1].id
  <2> TAKE i \in 1..Len(bundle')
  <2>1. CASE i \in 1..Len(bundle)
    BY <1>1, <1>5, <2>1, Zenon DEF OpenInv
  <2>2. CASE i = Len(bundle) + 1
    <3>1. first_block + i - 1 = current_block
      BY <1>2, <2>2
    <3> QED  BY <1>5, <2>2, <3>1
  <2> QED  BY <1>2, <1>5, <2>1, <2>2
<1>7. /\ current_block' = first_block + Len(bundle') /\ current_block' <= Len(canon) + 1
      /\ current_block' - 1 = current_block
  <2>1. current_block \in Nat /\ current_block' = current_block + 1 /\ Len(bundle') = Len(bundle) + 1
    BY <1>1, <1>2, <1>5
  <2> QED  BY <1>1, <1>2, <2>1
<1>8. OpenInv'
  BY <1>1, <1>4, <1>5, <1>6, <1>7, Zenon DEF OpenInv
<1> QED  BY <1>1, <1>8, CollectingKeeps

\* A batch that is closed has a block: the first one existed when build_batch began.
LEMMA CloseKeeps ==
  ASSUME ChainInv, BatchInv, Batches!BlobsFail \/ Batches!NoMoreBlocks PROVE BatchInv'
<1>1. /\ OpenInv /\ stage' = "seal"
      /\ UNCHANGED <<canon, sealed, batch_counter, first_block, current_block, bundle, state_root>>
      /\ current_block # first_block \/ current_block > Len(canon)
  BY DEF Batches!BlobsFail, Batches!NoMoreBlocks, Batches!chainVars, Batches!loopVars, BatchInv
<1>2. Len(bundle) \in Nat /\ Len(canon) \in Nat
  BY <1>1, LenProperties DEF OpenInv, ChainInv
<1>3. Len(bundle) > 0
  BY <1>1, <1>2 DEF OpenInv
<1>4. OpenInv'
  BY <1>1, <1>3 DEF OpenInv
<1> QED  BY <1>1, <1>4, CollectingKeeps

\* The sealed batch takes the place after the last one, and its blocks follow those that
\* the last one claims.
LEMMA SealKeeps == ASSUME ChainInv, BatchInv, Batches!Seal PROVE BatchInv'
<1> DEFINE k == Len(sealed)
           b == Batches!Batch
<1>1. /\ OpenInv /\ Len(bundle) > 0 /\ stage' = "send" /\ canon' = canon
      /\ batch_counter = k /\ batch_counter' = k + 1
      /\ sealed' = [n \in DOMAIN sealed \cup {k + 1} |-> IF n = k + 1 THEN b ELSE sealed[n]]
  BY DEF Batches!Seal, Batches!chainVars, BatchInv, OpenInv, LastBatchIsStored, Batches!LastBatchIsStored
<1>2. /\ k \in Nat /\ DOMAIN sealed = 1..k /\ Len(bundle) \in Nat /\ DOMAIN bundle = 1..Len(bundle)
      /\ \A n \in 1..k : sealed[n] \in SealedBatch
      /\ first_block \in Nat /\ first_block > 0 /\ current_block = first_block + Len(bundle)
  BY <1>1, LenProperties DEF BatchInv, OpenInv
<1>3. /\ b.first = first_block /\ b.last = current_block /\ b.blobs = bundle /\ b.root = state_root
      /\ b \in SealedBatch
  <2>1. state_root \in Nat /\ bundle \in Seq(Nat)
    BY <1>1 DEF OpenInv
  <2>2. first_block \in Nat /\ current_block \in Nat
    BY <1>2
  <2> QED  BY <2>1, <2>2 DEF Batches!Batch, SealedBatch
<1>4. Matches(b, canon)
  <2>1. bundle # <<>>
    BY <1>1, EmptySeq
  <2>2. first_block + Len(bundle) - 1 = current_block - 1 /\ current_block - 1 <= Len(canon)
    <3>1. current_block <= Len(canon) + 1 /\ Len(canon) \in Nat
      BY <1>1, LenProperties DEF OpenInv, ChainInv
    <3> QED  BY <1>2, <3>1
  <2>3. /\ \A i \in DOMAIN bundle : bundle[i] = canon[first_block + i - 1].id
        /\ state_root = canon[current_block - 1].id
    BY <1>1, <1>2 DEF OpenInv
  <2> QED  BY <1>3, <2>1, <2>2, <2>3 DEF Matches
<1> HIDE DEF b
<1>5. /\ DOMAIN sealed' = 1..(k + 1) /\ sealed'[k + 1] = b
      /\ \A n \in 1..k : n # k + 1 /\ sealed'[n] = sealed[n]
  BY <1>1, <1>2
<1>6. sealed' \in Seq(SealedBatch) /\ Len(sealed') = k + 1
  <2>1. sealed' \in [1..(k + 1) -> SealedBatch]
    BY <1>1, <1>2, <1>3, <1>5
  <2>2. k + 1 \in Nat
    BY <1>2
  <2>3. sealed' \in Seq(SealedBatch)
    BY <2>1, <2>2, SeqDef
  <2> QED  BY <1>5, <2>2, <2>3, LenProperties
<1>7. \A n \in DOMAIN sealed' : n = k + 1 \/ n \in 1..k
  BY <1>2, <1>5
<1>8. \A n \in DOMAIN sealed' : sealed'[n].first > 0
  BY <1>2, <1>3, <1>5, <1>7 DEF BatchInv
<1>9. BatchMatchesChain'
  BY <1>1, <1>2, <1>4, <1>5, <1>7, MatchesEach, MatchesEachNext DEF BatchInv
<1>10. RangesFollow'
  <2> SUFFICES ASSUME NEW n \in DOMAIN sealed'
               PROVE  /\ sealed'[n].first = IF n = 1 THEN 1 ELSE sealed'[n - 1].last + 1
                      /\ sealed'[n].first <= sealed'[n].last
    BY DEF RangesFollow, Batches!RangesFollow
  <2>1. CASE n \in 1..k
    <3>1. n = 1 \/ n - 1 \in 1..k
      BY <1>2, <2>1
    <3> QED  BY <1>2, <1>5, <2>1, <3>1 DEF BatchInv, RangesFollow, Batches!RangesFollow
  <2>2. CASE n = k + 1
    <3>1. first_block = IF k = 0 THEN 1 ELSE sealed[k].last + 1
      BY <1>1 DEF OpenInv
    <3>2. k = 0 \/ (k \in 1..k /\ sealed'[k] = sealed[k])
      BY <1>2, <1>5
    <3>3. n - 1 = k /\ (n = 1 <=> k = 0)
      BY <1>2, <2>2
    <3>4. first_block <= current_block
      BY <1>2
    <3> QED  BY <1>3, <1>5, <2>2, <3>1, <3>2, <3>3, <3>4
  <2> QED  BY <1>7, <2>1, <2>2
<1>11. LastBatchIsStored'
  BY <1>1, <1>6 DEF LastBatchIsStored, Batches!LastBatchIsStored
<1> QED  BY <1>1, <1>6, <1>8, <1>9, <1>10, <1>11, Zenon DEF BatchInv

LEMMA BatchInvIsKept ==
  ChainInv /\ ChainInv' /\ Grows /\ BatchInv /\ [Next]_vars => BatchInv'
<1> SUFFICES ASSUME ChainInv, ChainInv', Grows, BatchInv, [Next]_vars PROVE BatchInv'
  OBVIOUS
<1>1. CASE BatchStep
  <2>1. CASE Batches!NoFirstHeader \/ Batches!BlobsFailFirst \/ Batches!StoreFails \/ Batches!Broadcast
    <3>1. stage' = "idle" /\ UNCHANGED <<sealed, batch_counter>>
      BY <2>1 DEF Batches!NoFirstHeader, Batches!BlobsFailFirst, Batches!StoreFails,
         Batches!Broadcast, Batches!End
    <3> QED  BY <3>1, BatchesAreLeft
  <2>2. CASE Batches!NewEpoch
    <3>1. UNCHANGED <<sealed, batch_counter, stage, first_block, current_block, bundle, state_root>>
      BY <2>2 DEF Batches!NewEpoch, Batches!loopVars, BatchInv, LastBatchIsStored,
         Batches!LastBatchIsStored
    <3> QED  BY <3>1, BatchesAreLeft
  <2> QED  BY <1>1, <2>1, <2>2, BeginBatchKeeps, AddBlockKeeps, CloseKeeps, SealKeeps
           DEF BatchStep, Batches!build_batch
<1>2. CASE Crash
  <2>1. stage' = "idle" /\ sealed' = <<>> /\ batch_counter' = 0
    BY <1>2 DEF Crash
  <2>2. sealed' \in Seq(SealedBatch) /\ Len(sealed') = 0 /\ DOMAIN sealed' = {}
    BY <2>1, EmptySeq
  <2> QED  BY <2>1, <2>2, MatchesEachNext DEF BatchInv, LastBatchIsStored,
           Batches!LastBatchIsStored, RangesFollow, Batches!RangesFollow
<1>3. CASE BlockStep \/ CommitterStep \/ UNCHANGED vars
  BY <1>3, BatchesAreLeft DEF BlockStep, CommitterStep, vars, batchVars
<1> QED  BY <1>1, <1>2, <1>3 DEF Next

LEMMA BatchInvInitially == Init => BatchInv
<1> SUFFICES ASSUME Init PROVE BatchInv
  OBVIOUS
<1>1. stage = "idle" /\ sealed = <<>> /\ batch_counter = 0
  BY DEF Init, Batches!Init
<1>2. sealed \in Seq(SealedBatch) /\ Len(sealed) = 0 /\ DOMAIN sealed = {}
  BY <1>1, EmptySeq
<1> QED  BY <1>1, <1>2, MatchesEach DEF BatchInv, LastBatchIsStored,
         Batches!LastBatchIsStored, RangesFollow, Batches!RangesFollow

-----------------------------------------------------------------------------
(* The blocks that a batch claims, and the input of the prover. *)

\* A batch claims one block more than its blobs hold; a batch is there to be sent.
ClaimInv ==
  /\ \A b \in DOMAIN sealed : sealed[b].last = sealed[b].first + Len(sealed[b].blobs)
  /\ stage = "send" => Len(sealed) > 0

LEMMA ClaimInvInitially == Init => ClaimInv
<1> SUFFICES ASSUME Init PROVE ClaimInv
  OBVIOUS
<1>1. stage = "idle" /\ sealed = <<>>
  BY DEF Init, Batches!Init
<1>2. DOMAIN sealed = {}
  BY <1>1, EmptySeq
<1> QED  BY <1>1, <1>2 DEF ClaimInv

LEMMA SealClaims == ASSUME BatchInv, ClaimInv, Batches!Seal PROVE ClaimInv'
<1> DEFINE k == Len(sealed)
           b == Batches!Batch
<1>1. /\ OpenInv /\ stage' = "send"
      /\ sealed' = [n \in DOMAIN sealed \cup {k + 1} |-> IF n = k + 1 THEN b ELSE sealed[n]]
  BY DEF Batches!Seal, BatchInv, LastBatchIsStored, Batches!LastBatchIsStored
<1>2. b.last = b.first + Len(b.blobs) /\ b \in SealedBatch
  <2>1. /\ current_block = first_block + Len(bundle) /\ state_root \in Nat
        /\ first_block \in Nat /\ bundle \in Seq(Nat) /\ Len(bundle) \in Nat
    BY <1>1, LenProperties DEF OpenInv
  <2>2. current_block \in Nat
    BY <2>1
  <2> QED  BY <2>1, <2>2 DEF Batches!Batch, SealedBatch
<1> HIDE DEF b
<1>3. /\ k \in Nat /\ DOMAIN sealed = 1..k
      /\ \A n \in 1..k : sealed[n] \in SealedBatch
  BY LenProperties DEF BatchInv
<1>4. /\ DOMAIN sealed' = 1..(k + 1) /\ sealed'[k + 1] = b
      /\ \A n \in 1..k : n # k + 1 /\ sealed'[n] = sealed[n]
  BY <1>1, <1>3
<1>5. Len(sealed') = k + 1
  <2>1. sealed' \in [1..(k + 1) -> SealedBatch] /\ k + 1 \in Nat
    BY <1>1, <1>2, <1>3, <1>4
  <2> QED  BY <1>4, <2>1, SeqDef, LenProperties
<1>6. \A n \in DOMAIN sealed' : n = k + 1 \/ n \in 1..k
  BY <1>3, <1>4
<1> QED  BY <1>2, <1>3, <1>4, <1>5, <1>6 DEF ClaimInv

LEMMA ClaimInvIsKept == BatchInv /\ ClaimInv /\ [Next]_vars => ClaimInv'
<1> SUFFICES ASSUME BatchInv, ClaimInv, [Next]_vars PROVE ClaimInv'
  OBVIOUS
<1>1. ASSUME sealed' = sealed, stage' # "send" \/ stage' = stage PROVE ClaimInv'
  BY <1>1 DEF ClaimInv
<1>2. CASE BatchStep
  <2>1. CASE Batches!NoFirstHeader \/ Batches!BlobsFailFirst \/ Batches!StoreFails \/ Batches!Broadcast
    BY <1>1, <2>1 DEF Batches!NoFirstHeader, Batches!BlobsFailFirst, Batches!StoreFails,
       Batches!Broadcast, Batches!End
  <2>2. CASE Batches!BeginBatch \/ Batches!AddBlock \/ Batches!BlobsFail \/ Batches!NoMoreBlocks
             \/ Batches!NewEpoch
    BY <1>1, <2>2 DEF Batches!BeginBatch, Batches!AddBlock, Batches!BlobsFail,
       Batches!NoMoreBlocks, Batches!NewEpoch
  <2> QED  BY <1>2, <2>1, <2>2, SealClaims DEF BatchStep, Batches!build_batch
<1>3. CASE Crash
  <2>1. stage' = "idle" /\ sealed' = <<>> /\ DOMAIN sealed' = {}
    BY <1>3, EmptySeq DEF Crash
  <2> QED  BY <2>1 DEF ClaimInv
<1>4. CASE BlockStep \/ CommitterStep \/ UNCHANGED vars
  BY <1>1, <1>4, SMTT(30) DEF BlockStep, CommitterStep, vars, batchVars
<1> QED  BY <1>2, <1>3, <1>4 DEF Next

\* The block after the last one in the blobs of a batch is the first of the next batch
\* but one, so it exists once there is a next batch.
LEMMA OlderAreProvable == ASSUME ChainInv, BatchInv, ClaimInv PROVE OlderBatchesAreProvable
<1> SUFFICES ASSUME NEW b \in DOMAIN sealed, b < Len(sealed)
             PROVE  LET input == create_prover_input(sealed, canon, b)
                    IN  /\ input.ok
                        /\ \A i \in DOMAIN input.blobs :
                             input.blobs[i] = input.blocks[sealed[b].first + i - 1]
  BY DEF OlderBatchesAreProvable
<1> DEFINE this == sealed[b]
           next == sealed[b + 1]
<1>1. /\ DOMAIN sealed = 1..Len(sealed) /\ Len(sealed) \in Nat
      /\ DOMAIN canon = 1..Len(canon) /\ Len(canon) \in Nat
  BY LenProperties DEF ChainInv, BatchInv
<1>2. b + 1 \in DOMAIN sealed /\ b + 1 # 1 /\ (b + 1) - 1 = b
  BY <1>1
<1>3. this \in SealedBatch /\ next \in SealedBatch
  BY <1>2, LenProperties DEF BatchInv
<1>4. /\ Len(this.blobs) \in Nat /\ DOMAIN this.blobs = 1..Len(this.blobs) /\ this.blobs # <<>>
      /\ Len(next.blobs) \in Nat /\ Len(next.blobs) > 0
      /\ this.first \in Nat /\ this.last \in Nat /\ next.first \in Nat
  <2>1. Matches(this, canon) /\ Matches(next, canon)
    BY <1>2, MatchesEach DEF BatchInv
  <2>2. this.blobs \in Seq(Nat) /\ next.blobs \in Seq(Nat)
    BY <1>3 DEF SealedBatch
  <2>3. this.blobs # <<>> /\ next.blobs # <<>>
    BY <2>1 DEF Matches
  <2> HIDE DEF this, next
  <2> QED  BY <1>3, <2>2, <2>3, LenProperties, EmptySeq DEF SealedBatch
<1>5. /\ next.first = this.last + 1 /\ next.first + Len(next.blobs) - 1 <= Len(canon)
      /\ this.last = this.first + Len(this.blobs) /\ this.first > 0
  <2>1. Matches(next, canon)
    BY <1>2, MatchesEach DEF BatchInv
  <2>2. next.first = sealed[(b + 1) - 1].last + 1
    BY <1>2 DEF BatchInv, RangesFollow, Batches!RangesFollow
  <2> QED  BY <1>2, <2>1, <2>2 DEF BatchInv, ClaimInv, Matches
<1>6. /\ this.first..this.last \subseteq DOMAIN canon
      /\ \A i \in DOMAIN this.blobs : this.first + i - 1 \in this.first..this.last
  <2> DEFINE f == this.first
             l == this.last
             n == Len(this.blobs)
             m == Len(canon)
  <2>1. l \in Nat /\ f \in Nat /\ n \in Nat /\ m \in Nat /\ f > 0 /\ l = f + n
    BY <1>1, <1>4, <1>5
  <2>2. l <= m
    BY <1>1, <1>4, <1>5
  <2> HIDE DEF f, l, n, m
  <2>3. f..l \subseteq 1..m /\ \A i \in 1..n : f + i - 1 \in f..l
    BY <2>1, <2>2
  <2> QED  BY <1>1, <1>4, <2>3 DEF f, l, n, m
<1>7. \A i \in DOMAIN this.blobs : this.blobs[i] = canon[this.first + i - 1].id
  <2>1. Matches(this, canon)
    BY MatchesEach DEF BatchInv
  <2> QED  BY <2>1 DEF Matches
<1> HIDE DEF this
<1>8. create_prover_input(sealed, canon, b)
        = [ok |-> TRUE, blocks |-> [n \in this.first..this.last |-> canon[n].id], blobs |-> this.blobs]
  BY <1>4, <1>6 DEF create_prover_input, fetch_blocks, get_block_numbers_by_batch, this
<1> QED  BY <1>6, <1>7, <1>8 DEF this

-----------------------------------------------------------------------------
(* The batches on their way through the committer. *)

Messages == [id : Nat, body : SealedBatch]

Consecutive(s) == \A i \in 1..(Len(s) - 1) : s[i + 1].id = s[i].id + 1

LEMMA ConsecutiveAppend ==
  ASSUME NEW s \in Seq(Messages), NEW m \in Messages, Consecutive(s),
         s # <<>> => m.id = s[Len(s)].id + 1
  PROVE  Consecutive(Append(s, m))
<1> DEFINE t == Append(s, m)
<1>1. /\ Len(s) \in Nat /\ Len(t) = Len(s) + 1 /\ t[Len(s) + 1] = m
      /\ \A i \in 1..Len(s) : t[i] = s[i]
  BY AppendProperties, LenProperties
<1>2. Len(s) > 0 => m.id = s[Len(s)].id + 1
  BY EmptySeq
<1> HIDE DEF t
<1> SUFFICES ASSUME NEW i \in 1..Len(s) PROVE t[i + 1].id = t[i].id + 1
  BY <1>1 DEF Consecutive, t
<1>3. CASE i = Len(s)
  BY <1>1, <1>2, <1>3
<1>4. CASE i # Len(s)
  <2>1. i \in 1..(Len(s) - 1) /\ i + 1 \in 1..Len(s)
    BY <1>1, <1>4
  <2> QED  BY <1>1, <2>1 DEF Consecutive
<1> QED  BY <1>3, <1>4

LEMMA ConsecutivePrefix ==
  ASSUME NEW s \in Seq(Messages), NEW t \in Seq(Messages), Consecutive(s \o t)
  PROVE  Consecutive(s)
<1> DEFINE st == s \o t
<1>1. /\ Len(s) \in Nat /\ Len(t) \in Nat /\ Len(st) = Len(s) + Len(t)
      /\ \A i \in 1..(Len(s) + Len(t)) : i <= Len(s) => st[i] = s[i]
  BY ConcatProperties, LenProperties
<1>2. \A i \in 1..(Len(st) - 1) : st[i + 1].id = st[i].id + 1
  BY DEF Consecutive
<1> HIDE DEF st
<1> SUFFICES ASSUME NEW i \in 1..(Len(s) - 1) PROVE s[i + 1].id = s[i].id + 1
  BY DEF Consecutive
<1>3. i \in 1..(Len(st) - 1) /\ st[i] = s[i] /\ st[i + 1] = s[i + 1]
  BY <1>1
<1> QED  BY <1>2, <1>3

LEMMA ConcatAppend ==
  ASSUME NEW s \in Seq(Messages), NEW t \in Seq(Messages), NEW m \in Messages
  PROVE  s \o Append(t, m) = Append(s \o t, m)
<1>1. <<m>> \in Seq(Messages) /\ s \o t \in Seq(Messages)
  BY ConcatProperties
<1> QED  BY <1>1, AppendIsConcat, ConcatAssociative

\* Taking the first batch from the channel leaves the line as it is.
LEMMA ConcatHeadTail ==
  ASSUME NEW s \in Seq(Messages), NEW t \in Seq(Messages), t # <<>>
  PROVE  (s \o <<Head(t)>>) \o Tail(t) = s \o t
<1>1. Head(t) \in Messages /\ Tail(t) \in Seq(Messages) /\ <<Head(t)>> \in Seq(Messages)
  BY HeadTailProperties
<1>2. <<Head(t)>> \o Tail(t) = t
  <2> DEFINE h == Head(t)
             r == Tail(t)
             u == <<h>> \o r
  <2>1. /\ Len(t) \in Nat /\ Len(t) > 0 /\ h = t[1] /\ Len(r) = Len(t) - 1
        /\ \A i \in 1..Len(r) : r[i] = t[i + 1]
    BY HeadTailProperties, EmptySeq, LenProperties
  <2>2. Len(<<h>>) = 1 /\ <<h>>[1] = h
    OBVIOUS
  <2>3. /\ u \in Seq(Messages) /\ Len(u) = 1 + Len(r)
        /\ \A i \in 1..(1 + Len(r)) : u[i] = IF i <= 1 THEN <<h>>[i] ELSE r[i - 1]
    BY <1>1, <2>2, ConcatProperties
  <2>4. \A i \in 1..Len(t) : u[i] = t[i]
    <3> SUFFICES ASSUME NEW i \in 1..Len(t) PROVE u[i] = t[i]
      OBVIOUS
    <3> HIDE DEF u, r, h
    <3>1. i = 1 \/ (i - 1 \in 1..Len(r) /\ (i - 1) + 1 = i /\ ~(i <= 1))
      BY <2>1
    <3>2. i \in 1..(1 + Len(r))
      BY <2>1
    <3> QED  BY <2>1, <2>2, <2>3, <3>1, <3>2
  <2>5. Len(u) = Len(t)
    BY <2>1, <2>3
  <2> QED  BY <2>3, <2>4, <2>5, SeqEqual
<1> QED  BY <1>1, <1>2, ConcatAssociative

\* The batch that the committer has taken and not published.
Taken == IF runner = "gossip" THEN <<>> ELSE held

\* The published batches, the one that is taken and those in the channel, in this order.
Line == published \o Taken \o inbox

\* The number of the batch that is sent next.
NextSent == IF stage = "send" THEN batch_counter ELSE batch_counter + 1

\* Without an overflow the line ends right before the batch that is sent next.
LineInv ==
  /\ published \in Seq(Messages) /\ held \in Seq(Messages) /\ inbox \in Seq(Messages)
  /\ Len(inbox) <= MaxBatchToBroadcast
  /\ lagged \in BOOLEAN
  /\ runner \notin {"publish", "gossip"} => held = <<>>
  /\ Consecutive(published \o Taken)
  /\ ~lagged => Consecutive(Line)
  /\ Submitter!Listening /\ ~lagged /\ Line # <<>> => NextSent = Line[Len(Line)].id + 1

LEMMA LineTyped ==
  ASSUME published \in Seq(Messages), held \in Seq(Messages), inbox \in Seq(Messages)
  PROVE  /\ Taken \in Seq(Messages) /\ published \o Taken \in Seq(Messages)
         /\ Line \in Seq(Messages)
<1>1. Taken \in Seq(Messages)
  BY EmptySeq DEF Taken
<1>2. published \o Taken \in Seq(Messages)
  BY <1>1, ConcatProperties
<1> QED  BY <1>1, <1>2, ConcatProperties DEF Line

\* A new channel has nothing in it, and nothing was published from it.
LEMMA NewLine ==
  ASSUME published' = <<>>, held' = <<>>, inbox' = <<>>, lagged' = FALSE
  PROVE  LineInv'
<1>1. /\ published' \in Seq(Messages) /\ held' \in Seq(Messages) /\ inbox' \in Seq(Messages)
      /\ Len(inbox') = 0
  BY EmptySeq
<1>2. Taken' = <<>>
  BY DEF Taken
<1>3. (published \o Taken)' = <<>> /\ Line' = <<>>
  BY <1>2, ConcatEmptySeq, EmptySeq DEF Line
<1>4. Consecutive((published \o Taken)') /\ Consecutive(Line')
  BY <1>3 DEF Consecutive
<1>5. Len(inbox') <= MaxBatchToBroadcast
  BY <1>1, ChannelHasRoom
<1> QED  BY <1>1, <1>3, <1>4, <1>5, Zenon DEF LineInv

\* The receiver is gone; what it published stays.
LEMMA LineEnds ==
  ASSUME LineInv, runner' = "ended", held' = <<>>, inbox' = <<>>, lagged' = lagged,
         published' \in Seq(Messages), Consecutive(published')
  PROVE  LineInv'
<1>1. held' \in Seq(Messages) /\ inbox' \in Seq(Messages) /\ Len(inbox') = 0
  BY EmptySeq
<1>2. Taken' = <<>> /\ (published \o Taken)' = published' /\ Line' = published'
  BY ConcatEmptySeq DEF Taken, Line
<1>3. ~Submitter!Listening'
  BY DEF Submitter!Listening, Submitter!Alive
<1> QED  BY <1>1, <1>2, <1>3, ChannelHasRoom DEF LineInv

LEMMA LineStays ==
  ASSUME LineInv, UNCHANGED <<inbox, lagged, runner, held, published>>,
         Submitter!Listening' => Submitter!Listening /\ NextSent' = NextSent
  PROVE  LineInv'
<1>1. Taken' = Taken /\ Line' = Line /\ (published \o Taken)' = published \o Taken
  BY DEF Taken, Line
<1> QED  BY <1>1 DEF LineInv

LEMMA RecvKeeps ==
  ASSUME LineInv, Submitter!Recv, UNCHANGED <<stage, batch_counter>> PROVE LineInv'
<1>1. CASE Submitter!Ends
  <2>1. Consecutive(published)
    BY LineTyped, ConsecutivePrefix DEF LineInv
  <2> QED  BY <1>1, <2>1, LineEnds DEF Submitter!Ends, Submitter!Dropped, LineInv
<1>2. CASE ~Submitter!Ends
  <2>1. /\ runner = "recv" /\ inbox # <<>> /\ ~lagged /\ runner' = "publish"
        /\ held' = <<Head(inbox)>> /\ inbox' = Tail(inbox)
        /\ UNCHANGED <<lagged, closed, published>>
    BY <1>2 DEF Submitter!Recv
  <2>2. /\ held' \in Seq(Messages) /\ inbox' \in Seq(Messages) /\ published' \in Seq(Messages)
        /\ Len(inbox) \in Nat /\ Len(inbox') = Len(inbox) - 1
    BY <2>1, HeadTailProperties, LenProperties DEF LineInv
  <2>3. published \o Taken = published /\ (published \o Taken)' = published \o <<Head(inbox)>>
    BY <2>1, ConcatEmptySeq DEF LineInv, Taken
  <2>4. Line' = Line
    BY <2>1, <2>3, ConcatHeadTail DEF LineInv, Line
  <2>5. Consecutive((published \o Taken)')
    <3>1. (published \o Taken)' \in Seq(Messages)
      BY <2>2, <2>3, LineTyped, ConcatProperties DEF LineInv
    <3>2. Consecutive((published \o Taken)' \o inbox')
      BY <2>1, <2>4, Zenon DEF LineInv, Line
    <3> QED  BY <2>2, <3>1, <3>2, ConsecutivePrefix, Zenon
  <2>6. Submitter!Listening' => Submitter!Listening
    BY <2>1 DEF Submitter!Listening, Submitter!Alive
  <2>7. Len(inbox') <= MaxBatchToBroadcast
    BY <2>2, ChannelHasRoom DEF LineInv
  <2>8. NextSent' = NextSent
    BY DEF NextSent
  <2> QED  BY <2>1, <2>2, <2>4, <2>5, <2>6, <2>7, <2>8 DEF LineInv
<1> QED  BY <1>1, <1>2

LEMMA PublishKeeps ==
  ASSUME LineInv, Submitter!Publish, UNCHANGED <<stage, batch_counter>> PROVE LineInv'
<1>1. CASE Submitter!Ends
  <2>1. Consecutive(published)
    BY LineTyped, ConsecutivePrefix DEF LineInv
  <2> QED  BY <1>1, <2>1, LineEnds DEF Submitter!Ends, Submitter!Dropped, LineInv
<1>2. CASE ~Submitter!Ends
  <2>1. /\ runner = "publish" /\ runner' = "gossip" /\ published' = published \o held
        /\ UNCHANGED <<inbox, lagged, closed, held>>
    BY <1>2 DEF Submitter!Publish
  <2>2. published' \in Seq(Messages)
    BY <2>1, ConcatProperties DEF LineInv
  <2>3. (published \o Taken)' = published \o Taken
    BY <2>1, <2>2, ConcatEmptySeq DEF Taken
  <2>4. Line' = Line
    BY <2>1, <2>3 DEF Line
  <2>5. Submitter!Listening' => Submitter!Listening
    BY <2>1 DEF Submitter!Listening, Submitter!Alive
  <2>6. NextSent' = NextSent
    BY DEF NextSent
  <2> QED  BY <2>1, <2>2, <2>3, <2>4, <2>5, <2>6 DEF LineInv
<1> QED  BY <1>1, <1>2

LEMMA GossipKeeps ==
  ASSUME LineInv, Submitter!Gossip, UNCHANGED <<stage, batch_counter>> PROVE LineInv'
<1>1. CASE Submitter!Ends
  <2>1. Consecutive(published)
    BY LineTyped, ConsecutivePrefix DEF LineInv
  <2> QED  BY <1>1, <2>1, LineEnds DEF Submitter!Ends, Submitter!Dropped, LineInv
<1>2. CASE ~Submitter!Ends
  <2>1. /\ runner = "gossip" /\ runner' = "recv" /\ held' = <<>>
        /\ UNCHANGED <<inbox, lagged, closed, published>>
    BY <1>2 DEF Submitter!Gossip
  <2>2. held' \in Seq(Messages)
    BY <2>1, EmptySeq
  <2>3. Taken' = Taken /\ (published \o Taken)' = published \o Taken /\ Line' = Line
    BY <2>1 DEF Taken, Line
  <2>4. Submitter!Listening' => Submitter!Listening
    BY <2>1 DEF Submitter!Listening, Submitter!Alive
  <2>5. NextSent' = NextSent
    BY DEF NextSent
  <2> QED  BY <2>1, <2>2, <2>3, <2>4, <2>5 DEF LineInv
<1> QED  BY <1>1, <1>2

\* The message of a publish that is given up may be in the queue or not.
LEMMA CancelKeeps == ASSUME LineInv, Submitter!Cancel PROVE LineInv'
<1>1. CASE Submitter!Ends
  <2>1. Consecutive(published)
    BY LineTyped, ConsecutivePrefix DEF LineInv
  <2> QED  BY <1>1, <2>1, LineEnds DEF Submitter!Ends, Submitter!Dropped, LineInv
<1>2. CASE ~Submitter!Ends
  <2>1. /\ runner = "publish" /\ published' = published \o held
        /\ runner' = "ended" /\ held' = <<>> /\ inbox' = <<>> /\ lagged' = lagged
    BY <1>2 DEF Submitter!Cancel, Submitter!Dropped
  <2>2. published' = published \o Taken
    BY <2>1 DEF Taken
  <2> QED  BY <2>1, <2>2, LineTyped, LineEnds DEF LineInv
<1> QED  BY <1>1, <1>2

\* The batch that is sent goes to the end of the line, or the channel overflows.
LEMMA SendKeeps ==
  ASSUME BatchInv, ClaimInv, LineInv, stage = "send", stage' = "idle",
         batch_counter' = batch_counter, Submitter!Send(Message)
  PROVE  LineInv'
<1> DEFINE m == Message
<1>1. /\ inbox' = IF Len(inbox) < MaxBatchToBroadcast
                  THEN Append(inbox, m) ELSE Append(Tail(inbox), m)
      /\ lagged' = (lagged \/ Len(inbox) = MaxBatchToBroadcast)
      /\ Submitter!Listening /\ UNCHANGED <<closed, runner, held, published>>
  BY DEF Submitter!Send
<1>2. m \in Messages /\ m.id = batch_counter
  <2>1. batch_counter \in DOMAIN sealed /\ batch_counter \in Nat
    BY LenProperties DEF BatchInv, ClaimInv, LastBatchIsStored, Batches!LastBatchIsStored
  <2>2. sealed[batch_counter] \in SealedBatch
    BY <2>1, LenProperties DEF BatchInv
  <2> QED  BY <2>1, <2>2 DEF Message, Messages
<1> HIDE DEF m
<1>3. Taken' = Taken /\ (published \o Taken)' = published \o Taken
  BY <1>1 DEF Taken
<1>4. /\ inbox \in Seq(Messages) /\ Len(inbox) \in Nat /\ Len(inbox) <= MaxBatchToBroadcast
      /\ MaxBatchToBroadcast \in Nat \ {0}
  BY LenProperties, ChannelHasRoom DEF LineInv
<1>5. CASE Len(inbox) < MaxBatchToBroadcast
  <2>1. inbox' = Append(inbox, m) /\ lagged' = lagged
    BY <1>1, <1>4, <1>5 DEF LineInv
  <2>2. inbox' \in Seq(Messages) /\ Len(inbox') = Len(inbox) + 1
    BY <1>2, <1>4, <2>1, AppendProperties
  <2>3. Line' = Append(Line, m)
    <3>1. published \o Taken \in Seq(Messages)
      BY LineTyped DEF LineInv
    <3>2. Line' = (published \o Taken) \o Append(inbox, m)
      BY <1>3, <2>1 DEF Line
    <3> QED  BY <1>2, <1>4, <3>1, <3>2, ConcatAppend DEF Line
  <2>4. ~lagged /\ Line # <<>> => m.id = Line[Len(Line)].id + 1
    BY <1>1, <1>2 DEF LineInv, NextSent
  <2>5. Line \in Seq(Messages) /\ (~lagged => Consecutive(Line))
    BY LineTyped DEF LineInv
  <2>6. ~lagged => Consecutive(Line')
    BY <1>2, <2>3, <2>4, <2>5, ConsecutiveAppend
  <2>7. Line'[Len(Line')].id = m.id
    BY <1>2, <2>3, <2>5, AppendProperties
  <2>8. NextSent' = m.id + 1
    BY <1>2 DEF NextSent
  <2>9. Len(inbox') <= MaxBatchToBroadcast
    BY <1>4, <1>5, <2>2
  <2> QED  BY <1>1, <1>3, <2>1, <2>2, <2>6, <2>7, <2>8, <2>9 DEF LineInv
<1>6. CASE ~(Len(inbox) < MaxBatchToBroadcast)
  <2>1. inbox # <<>> /\ inbox' = Append(Tail(inbox), m) /\ lagged' = TRUE
    <3>1. Len(inbox) = MaxBatchToBroadcast
      BY <1>4, <1>6
    <3> QED  BY <1>1, <1>4, <1>6, <3>1, EmptySeq, Zenon
  <2>2. Tail(inbox) \in Seq(Messages) /\ Len(Tail(inbox)) = Len(inbox) - 1
    BY <1>4, <2>1, HeadTailProperties
  <2>3. inbox' \in Seq(Messages) /\ Len(inbox') = Len(Tail(inbox)) + 1
    BY <1>2, <2>1, <2>2, AppendProperties
  <2>4. Len(inbox') <= MaxBatchToBroadcast
    BY <1>4, <2>2, <2>3
  <2> QED  BY <1>1, <1>3, <2>1, <2>3, <2>4 DEF LineInv
<1> QED  BY <1>5, <1>6

LEMMA LineInvIsKept == BatchInv /\ ClaimInv /\ LineInv /\ [Next]_vars => LineInv'
<1> SUFFICES ASSUME BatchInv, ClaimInv, LineInv, [Next]_vars PROVE LineInv'
  OBVIOUS
<1> USE DEF committerVars
<1>1. CASE BlockStep \/ UNCHANGED vars
  BY <1>1, LineStays DEF BlockStep, vars, batchVars, Submitter!Listening, Submitter!Alive, NextSent
<1>2. CASE CommitterStep
  <2>1. CASE Submitter!Subscribe
    BY <2>1, NewLine, Zenon DEF Submitter!Subscribe
  <2> QED  BY <1>2, <2>1, RecvKeeps, PublishKeeps, GossipKeeps, CancelKeeps
           DEF CommitterStep, Submitter!CommitterNext, batchVars
<1>3. CASE Crash
  BY <1>3, NewLine, Zenon DEF Crash
<1>4. CASE Batches!build_batch /\ UNCHANGED committerVars
  <2>1. CASE Batches!Seal
    <3>1. stage = "seal" /\ stage' = "send" /\ batch_counter' = batch_counter + 1
      BY <2>1 DEF Batches!Seal
    <3> QED  BY <1>4, <3>1, LineStays DEF Submitter!Listening, Submitter!Alive, NextSent
  <2>2. CASE ~Batches!Seal
    <3>1. stage # "send" /\ stage' # "send" /\ batch_counter' = batch_counter
      <4>1. CASE Batches!NoFirstHeader \/ Batches!BlobsFailFirst \/ Batches!StoreFails
        BY <4>1 DEF Batches!NoFirstHeader, Batches!BlobsFailFirst, Batches!StoreFails, Batches!End
      <4>2. CASE Batches!BeginBatch \/ Batches!AddBlock \/ Batches!BlobsFail \/ Batches!NoMoreBlocks
        BY <4>2 DEF Batches!BeginBatch, Batches!AddBlock, Batches!BlobsFail, Batches!NoMoreBlocks
      <4> QED  BY <1>4, <2>2, <4>1, <4>2 DEF Batches!build_batch
    <3> QED  BY <1>4, <3>1, LineStays DEF Submitter!Listening, Submitter!Alive, NextSent
  <2> QED  BY <2>1, <2>2
<1>5. CASE Batches!Broadcast /\ Submitter!Send(Message)
  BY <1>5, SendKeeps DEF Batches!Broadcast, Batches!End
<1>6. CASE Batches!Broadcast /\ ~Submitter!Listening /\ UNCHANGED committerVars
  BY <1>6, LineStays DEF Submitter!Listening, Submitter!Alive
<1>7. CASE Submitter!Close
  BY <1>7, LineStays DEF Submitter!Close, Submitter!Listening
<1> QED  BY <1>1, <1>2, <1>3, <1>4, <1>5, <1>6, <1>7 DEF Next, BatchStep

LEMMA LineInvInitially == Init => LineInv
<1> SUFFICES ASSUME Init PROVE LineInv
  OBVIOUS
<1>1. published = <<>> /\ held = <<>> /\ inbox = <<>> /\ lagged = FALSE
  BY DEF Init, Submitter!CommitterInit
<1>2. /\ published \in Seq(Messages) /\ held \in Seq(Messages) /\ inbox \in Seq(Messages)
      /\ Len(inbox) = 0
  BY <1>1, EmptySeq
<1>3. published \o Taken = <<>> /\ Line = <<>>
  BY <1>1, ConcatEmptySeq, EmptySeq DEF Line, Taken
<1>4. Consecutive(published \o Taken) /\ Consecutive(Line)
  BY <1>3 DEF Consecutive
<1>5. Len(inbox) <= MaxBatchToBroadcast
  BY <1>2, ChannelHasRoom
<1> QED  BY <1>1, <1>2, <1>3, <1>4, <1>5, Zenon DEF LineInv

LEMMA LineImpliesNoneSkipped == LineInv => NoBatchSkipped
<1> SUFFICES ASSUME LineInv PROVE NoBatchSkipped
  OBVIOUS
<1>1. Consecutive(published)
  BY LineTyped, ConsecutivePrefix DEF LineInv
<1>2. ~lagged => Consecutive(published \o (IF runner = "gossip" THEN <<>> ELSE held) \o inbox)
  BY DEF LineInv, Line, Taken
<1> QED  BY <1>1, <1>2, Zenon DEF NoBatchSkipped, Consecutive

-----------------------------------------------------------------------------
\* batch_producer.rs: the blobs and the state root of every sealed batch are those of
\* consecutive canonical blocks, whatever the block producer did while it was prepared.
THEOREM BatchesMatchChain == Spec => []BatchMatchesChain
<1>1. BatchInv => BatchMatchesChain
  BY DEF BatchInv
<1> QED  BY ChainInvInitially, ChainStep, BatchInvInitially, BatchInvIsKept, <1>1, PTL DEF Spec

\* batch_producer.rs: the counter names the newest batch of the rollup store.
THEOREM LastBatchStaysStored == Spec => []LastBatchIsStored
<1>1. BatchInv => LastBatchIsStored
  BY DEF BatchInv
<1> QED  BY ChainInvInitially, ChainStep, BatchInvInitially, BatchInvIsKept, <1>1, PTL DEF Spec

\* batch_producer.rs: the block ranges that the batches claim follow one another.
THEOREM RangesAlwaysFollow == Spec => []RangesFollow
<1>1. BatchInv => RangesFollow
  BY DEF BatchInv
<1> QED  BY ChainInvInitially, ChainStep, BatchInvInitially, BatchInvIsKept, <1>1, PTL DEF Spec

\* coordinator.rs: the input of the prover can be made for every batch but the newest, and
\* the updates in its blobs are those of the blocks that it starts with.
THEOREM OlderBatchesStayProvable == Spec => []OlderBatchesAreProvable
<1>1. ChainInv /\ BatchInv /\ ClaimInv => OlderBatchesAreProvable
  BY OlderAreProvable
<1> QED  BY ChainInvInitially, ChainStep, BatchInvInitially, BatchInvIsKept, ClaimInvInitially,
            ClaimInvIsKept, <1>1, PTL DEF Spec

\* committer.rs: what a committer publishes, holds and has before it in the channel are
\* consecutive batches unless the channel has overflowed, and what it has published always
\* is, for every capacity of the channel.
THEOREM NoBatchIsSkipped == Spec => []NoBatchSkipped
BY ChainInvInitially, ChainStep, BatchInvInitially, BatchInvIsKept, ClaimInvInitially,
   ClaimInvIsKept, LineInvInitially, LineInvIsKept, LineImpliesNoneSkipped, PTL DEF Spec
===============================================================================
