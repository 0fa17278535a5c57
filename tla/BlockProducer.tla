---------------------------- MODULE BlockProducer ----------------------------
(***************************************************************************)
(* crates/block-producer: build_block fills a payload from the mempool,    *)
(* stores the block, caches its account updates in the rollup store under  *)
(* the block number, and makes the block the head of the canonical chain.  *)
(* The steps are separated by awaits, any of them may fail, and the        *)
(* mempool is filled concurrently.                                         *)
(*                                                                         *)
(* A block is named by the attempt that built it.  The state diff of a     *)
(* transaction is abstracted to the account fields it changes, one unit of *)
(* blob space each, and the units its log entries take.                    *)
(***************************************************************************)
EXTENDS Naturals, Sequences, FiniteSets, Functions

CONSTANTS
  Txs,           \* transactions
  Sender,        \* [Txs -> senders]
  Nonce,         \* [Txs -> Nat], the nonces of a sender start at 0
  GasOf,         \* [Txs -> Nat], the gas limit of a transaction
  LogSize,       \* [Txs -> Nat], diff size of its messages and deposits
  Fields,        \* [Txs -> set of account fields], what it changes
  BlobTxs,       \* the blob transactions among Txs, which the L2 refuses
  Protected,     \* replay-protected ones, if the chain has no EIP-155 yet
  BlockGas,      \* gas limit of a block
  TxGasCost,     \* TX_GAS_COST, the cheapest transaction
  HeaderSize,    \* diff size of an empty block
  SimpleTxSize,  \* SIMPLE_TX_STATE_DIFF_SIZE
  BlobSize,      \* SAFE_BYTES_PER_BLOB
  MaxAttempts    \* bound: calls of build_block

ASSUME BlockConstants ==
  /\ Nonce \in [Txs -> Nat] /\ GasOf \in [Txs -> Nat] /\ LogSize \in [Txs -> Nat]
  /\ BlobTxs \subseteq Txs /\ Protected \subseteq Txs
  /\ \A t \in Txs : IsFiniteSet(Fields[t])
  /\ BlockGas \in Nat /\ TxGasCost \in Nat /\ MaxAttempts \in Nat
  /\ HeaderSize \in Nat /\ SimpleTxSize \in Nat /\ BlobSize \in Nat
  /\ HeaderSize <= BlobSize
  /\ \A t, u \in BlobTxs : t # u => Sender[t] # Sender[u] \/ Nonce[t] # Nonce[u]

VARIABLES
  canon,      \* the canonical chain above genesis; a block has the number of its place
  cache,      \* account updates in the rollup store, by block number (0: none)
  attempts,   \* calls of build_block so far
  pc,         \* where build_block is
  pool,       \* the mempool
  queue,      \* the TransactionQueue of fill_transactions
  payload,    \* the transactions of the block being built
  gas,        \* context.remaining_gas
  logs,       \* acc_size_without_accounts
  fields,     \* account_diffs
  seen,       \* history: handed to the node
  rejected,   \* history: removed from the mempool as invalid
  lost        \* history: in a payload that was abandoned

chainVars == <<canon, cache>>
fillVars == <<queue, payload, gas, logs, fields>>
poolVars == <<pool, seen, rejected, lost>>
vars == <<chainVars, attempts, pc, fillVars, poolVars>>

TypeOK ==
  /\ canon \in Seq([id : 1..MaxAttempts, txs : Seq(Txs)])
  /\ cache \in [1..MaxAttempts -> 0..MaxAttempts]
  /\ attempts \in 0..MaxAttempts
  /\ pc \in {"idle", "filling", "stored", "cached"}
  /\ pool \subseteq Txs /\ queue \subseteq Txs
  /\ payload \in Seq(Txs)
  /\ gas \in 0..BlockGas
  /\ logs \in 0..BlobSize
  /\ seen \subseteq Txs /\ rejected \subseteq Txs /\ lost \subseteq Txs

Init ==
  /\ canon = <<>>
  /\ cache = [n \in 1..MaxAttempts |-> 0]
  /\ attempts = 0
  /\ pc = "idle"
  /\ pool = {} /\ queue = {}
  /\ payload = <<>>
  /\ gas = BlockGas /\ logs = HeaderSize /\ fields = {}
  /\ seen = {} /\ rejected = {} /\ lost = {}

-----------------------------------------------------------------------------
\* The transactions of the canonical chain.
Executed == UNION {Range(canon[n].txs) : n \in DOMAIN canon}

\* The account nonce of a sender after the transactions in S.
NonceAfter(s, S) == Cardinality({t \in S : Sender[t] = s})

\* A transaction arrives in the mempool, by RPC or from a peer.
AddTx(t) ==
  /\ t \notin seen
  /\ seen' = seen \cup {t}
  /\ pool' = pool \cup {t}
  /\ UNCHANGED <<chainVars, attempts, pc, fillVars, rejected, lost>>

\* The blob transactions that peek shows: pop drops the later ones of a sender from
\* its queue unseen.
BlobHeads ==
  {t \in pool \cap BlobTxs : \A u \in pool \cap BlobTxs : Sender[u] = Sender[t] => Nonce[t] <= Nonce[u]}

\* create_payload and fetch_mempool_transactions: the queue is a snapshot of the
\* plain transactions in the mempool, from which blob transactions are removed.
BeginBuild ==
  /\ pc = "idle"
  /\ attempts < MaxAttempts
  /\ attempts' = attempts + 1
  /\ pc' = "filling"
  /\ queue' = pool \ BlobTxs
  /\ pool' = pool \ BlobHeads
  /\ rejected' = rejected \cup BlobHeads
  /\ payload' = <<>>
  /\ gas' = BlockGas /\ logs' = HeaderSize /\ fields' = {}
  /\ UNCHANGED <<chainVars, seen, lost>>

-----------------------------------------------------------------------------
(* fill_transactions *)

\* pop() drops the head and with it all transactions of its sender; shift() only
\* moves on to the sender's next one.
Pop(t) == queue' = {u \in queue : Sender[u] # Sender[t]}
Shift(t) == queue' = queue \ {t}

\* The loop goes on while there is gas, blob space and a transaction at the head.
\* The queue offers the lowest nonce of each sender; which sender is first depends
\* on prices.
CanFill ==
  /\ gas >= TxGasCost
  /\ logs + Cardinality(fields) + SimpleTxSize <= BlobSize
  /\ queue # {}

AtHead(t) ==
  /\ pc = "filling"
  /\ CanFill
  /\ t \in queue
  /\ \A u \in queue : Sender[u] = Sender[t] => Nonce[t] <= Nonce[u]

\* Mutant: the account diffs of the block so far are left out of the sum.
SizeWith_NotMerged(t) == logs + LogSize[t] + Cardinality(Fields[t])

\* Diff size of the block with t added, from the merged account diffs.
SizeWith(t) == logs + LogSize[t] + Cardinality(fields \cup Fields[t])

\* Replay-protected too early, or a nonce that the chain has passed.
Invalid(t) == t \in Protected \/ Nonce[t] < NonceAfter(Sender[t], Executed)

\* Not enough gas left for t: it stays in the mempool.
SkipForGas(t) ==
  /\ AtHead(t)
  /\ gas < GasOf[t]
  /\ Pop(t)
  /\ UNCHANGED <<chainVars, attempts, pc, payload, gas, logs, fields, poolVars>>

\* t can never be executed: it leaves the mempool.
Reject(t) ==
  /\ AtHead(t)
  /\ gas >= GasOf[t]
  /\ Invalid(t)
  /\ Pop(t)
  /\ pool' = pool \ {t}
  /\ rejected' = rejected \cup {t}
  /\ UNCHANGED <<chainVars, attempts, pc, payload, gas, logs, fields, seen, lost>>

\* Execution fails, by a nonce gap or for another reason: t stays in the mempool.
ExecutionFails(t) ==
  /\ AtHead(t)
  /\ gas >= GasOf[t]
  /\ ~Invalid(t)
  /\ Pop(t)
  /\ UNCHANGED <<chainVars, attempts, pc, payload, gas, logs, fields, poolVars>>

\* The gas t may use.
GasUsed(t) == TxGasCost..GasOf[t]

\* Mutant: the gas left in the block is not compared with the limit of t.
Executes_NoGasCheck(t) ==
  /\ AtHead(t)
  /\ ~Invalid(t)
  /\ Nonce[t] = NonceAfter(Sender[t], Executed \cup Range(payload))

\* apply_plain_transaction succeeds.
Executes(t) ==
  /\ AtHead(t)
  /\ gas >= GasOf[t]
  /\ ~Invalid(t)
  /\ Nonce[t] = NonceAfter(Sender[t], Executed \cup Range(payload))

\* Mutant: t is removed from the mempool although it is not in the block.
TooBig_Removes(t) ==
  /\ Executes(t)
  /\ SizeWith(t) > BlobSize
  /\ Pop(t)
  /\ pool' = pool \ {t}
  /\ UNCHANGED <<chainVars, attempts, pc, payload, gas, logs, fields, seen, rejected, lost>>

\* The diff does not fit: t is undone and stays in the mempool.  Whether undoing
\* gives its gas back is up to the VM.
TooBig(t) ==
  /\ Executes(t)
  /\ SizeWith(t) > BlobSize
  /\ Pop(t)
  /\ \E used \in {0} \cup GasUsed(t) : gas' = gas - used
  /\ UNCHANGED <<chainVars, attempts, pc, payload, logs, fields, poolVars>>

Include(t) ==
  /\ Executes(t)
  /\ SizeWith(t) <= BlobSize
  /\ Shift(t)
  /\ pool' = pool \ {t}
  /\ payload' = Append(payload, t)
  /\ \E used \in GasUsed(t) : gas' = gas - used
  /\ logs' = logs + LogSize[t]
  /\ fields' = fields \cup Fields[t]
  /\ UNCHANGED <<chainVars, attempts, pc, seen, rejected, lost>>

-----------------------------------------------------------------------------
(* The rest of build_block *)

\* finalize_payload, validate_block and store_block: the block is in the database,
\* but no block number leads to it yet.
StoreBlock ==
  /\ pc = "filling"
  /\ ~CanFill
  /\ pc' = "stored"
  /\ UNCHANGED <<chainVars, attempts, fillVars, poolVars>>

\* Mutant: an entry for the number is kept if there is one.
StoreUpdates_KeepsOld ==
  /\ pc = "stored"
  /\ cache' = [cache EXCEPT ![Len(canon) + 1] = IF @ = 0 THEN attempts ELSE @]
  /\ pc' = "cached"
  /\ UNCHANGED <<canon, attempts, fillVars, poolVars>>

\* store_account_updates_by_block_number
StoreUpdates ==
  /\ pc = "stored"
  /\ cache' = [cache EXCEPT ![Len(canon) + 1] = attempts]
  /\ pc' = "cached"
  /\ UNCHANGED <<canon, attempts, fillVars, poolVars>>

\* apply_fork_choice: the number now leads to the block.
ApplyForkChoice ==
  /\ pc = "cached"
  /\ canon' = Append(canon, [id |-> attempts, txs |-> payload])
  /\ payload' = <<>> /\ queue' = {}
  /\ pc' = "idle"
  /\ UNCHANGED <<cache, attempts, gas, logs, fields, poolVars>>

\* Any of the fallible calls returns an error, which ends build_block.
BuildFails ==
  /\ pc # "idle"
  /\ pc' = "idle"
  /\ lost' = lost \cup Range(payload)
  /\ payload' = <<>> /\ queue' = {}
  /\ UNCHANGED <<chainVars, attempts, gas, logs, fields, pool, seen, rejected>>

Fill(t) == SkipForGas(t) \/ Reject(t) \/ ExecutionFails(t) \/ TooBig(t) \/ Include(t)

\* The bound on attempts is reached.
Exhausted == pc = "idle" /\ attempts = MaxAttempts /\ UNCHANGED vars

Next ==
  \/ \E t \in Txs : AddTx(t) \/ Fill(t)
  \/ BeginBuild
  \/ StoreBlock
  \/ StoreUpdates
  \/ ApplyForkChoice
  \/ BuildFails
  \/ Exhausted

Spec == Init /\ [][Next]_vars

-----------------------------------------------------------------------------
(* Properties *)

\* A transaction that was skipped, for gas, for space or because it failed, is still
\* in the mempool for the next block, and one that is in a block is not: each
\* transaction handed to the node is in exactly one place.
EachTxInOnePlace ==
  LET places == <<pool, rejected, lost, Range(payload), Executed>>
  IN \A t \in Txs :
       Cardinality({i \in DOMAIN places : t \in places[i]}) = IF t \in seen THEN 1 ELSE 0

\* The size of the state diff of a block, computed from its transactions: the header,
\* their log entries, and the fields that any of them changes, each once.
DiffSize(txs) ==
  LET sum[i \in 0..Len(txs)] == IF i = 0 THEN HeaderSize ELSE sum[i - 1] + LogSize[txs[i]]
  IN sum[Len(txs)] + Cardinality(UNION {Fields[t] : t \in Range(txs)})

\* The state diff of every block fits into a blob: the running sums of
\* fill_transactions agree with the diff computed from the block's transactions.
BlockFitsBlob ==
  \A n \in DOMAIN canon : DiffSize(canon[n].txs) <= BlobSize

\* The updates cached under the number of a canonical block are that block's own, also
\* when an earlier block with this number was stored and never became canonical.
CacheMatchesChain ==
  \A n \in DOMAIN canon : cache[n] \in {0, canon[n].id}

=============================================================================
