# TLA+ verification of the Mojave sequencer

This directory holds TLA+ models of Mojave (`src/`), the TLC configurations that
check them on small instances, and TLAPS proofs of their main invariants for all
instances. `PROJECT.json` lists the runs, the source lines behind every
definition, the hazards, the findings and the theorems.

    tlc -config MCTaskRuntime.cfg MCTaskRuntime      # check a run
    tlapm ToolkitProofs.tla                          # check the proofs of a module

## 1. Inventory

Mojave is a Bitcoin-anchored L2. A *sequencer* (one of several pods) builds
blocks, groups them into batches and publishes the batches; *provers* prove
batches; *nodes* follow. The processes are tokio programs: concurrency is between
async tasks, at every await, and between processes on the same files.

| Component | State | Operations | What is hard | Correct when |
|---|---|---|---|---|
| task framework (`crates/task`: `TaskRunner`, `TaskHandle`, `Task`) | two bounded channels, the task | `request`, `shutdown`, handle drop, periodic tick, `listen` | messages in flight when the runner ends; full channels; drop | a failed call did not run; nobody waits for ever; shutdown is final |
| service runner (`Runner`) | a service, a token | `run`, `shutdown` | a cancelled `run` loses what it held | nothing is published past what was lost |
| leader election (`coordination/k8s.rs`) | `am_i_leader`, the epoch | acquire, renew, step down, shutdown | lease expiry against slow calls; lost answers; crashes | one pod runs the tasks; there is always a leader again |
| leader tasks (`coordination/sequencer.rs`, `utils/health.rs`) | four handles | start, stop | partial start and stop; a silent health client | no task outlives leadership; a shutdown ends |
| block producer | mempool, block store, update cache | `build_block` | failure between stores; snapshot of the mempool | blocks fit a blob; no transaction disappears unnoticed |
| batch producer | batch counter, rollup store | `build_batch` | chain grows meanwhile; block ranges; restart | batches hold the updates of the blocks they claim |
| batch committer | subscription, held batch | receive, publish, gossip | lag, cancellation, restart | no batch left out of what is published |
| inscription builder | locked coins of a wallet | `create_inscription_tx` | failure after locking; concurrent calls; chunk sizes | coins exclusive and released; the reveal pays its fee |
| proof coordinator | stored proofs | `store_proof`, `create_prover_input` | check then write; duplicate proofs; block ranges | the first proof stays; inputs match the blobs |
| prover | pending set, proof map, job queue, sent ids | submit, query, worker loop | check-then-act over awaits; dropped handlers | a proof is published once; an accepted job is visible |
| RPC server | registry, open POSTs | parse, dispatch, answer, drop | batches; closed connections | answers complete; no handler for a closed POST |
| RPC client | urls, retry config | sequential and racing calls | timeouts, late answers | first success wins; nothing submitted twice |
| unique heap, pending heap | heap, key set, `Notify` | push, pop, peek, waits | lost wake-ups; two structures in step | one block per number, lowest first |
| Bitcoin watcher | socket, broadcast channel | decode, send, stop | lag, undecodable items, shutdown | no silent gap |
| node, daemon, mains | PID file, key, config, sockets | start, stop, init, run, shutdown | overlapping commands, crashes between writes | identity, record and peers carry over |
| signatures, logging, address lookup, option parsing | none | pure or I/O | – | not modelled |

The hazards of this code, each at its line and with the properties that cover it,
are in `PROJECT.json` under `hazards`.

## 2. Modules

| Module | Models | Composition |
|---|---|---|
| `TaskRuntime` | task framework | – |
| `LeaderElection` | election, leader tasks, health endpoint | uses tasks by the contract that `TaskRuntime` establishes |
| `BlockProducer` | block producer, mempool, update cache | – |
| `BatchProducer` | batch producer, rollup store | reads the chain and the cache of `BlockProducer` |
| `Committer` | batch committer and `Runner` | receives from `BatchProducer` |
| `ProverInput` | `create_prover_input` | operators over the rollup store and the chain |
| `Sequencer` | the process of a leader, which may crash | instances of `BlockProducer`, `BatchProducer` and `Committer` over shared variables; extends `ProverInput` |
| `RpcServer` | JSON-RPC server | the handlers are given by the module that extends it |
| `Prover` | prover: handlers, job store, queue, worker | extends `RpcServer` |
| `RpcClient` | one call of `MojaveClient` | extends `RpcServer`, one server per URL |
| `RpcAttribute` | the reader of `#[rpc(...)]` | – |
| `BlockQueue` | abstract specification of the heap | – |
| `UniqueHeap` | heap, key set, `Notify`, waiters | implements `BlockQueue` |
| `BtcWatcher` | watcher, channel, receivers | – |
| `InscriptionBuilder` | `create_inscription_tx` over one wallet | – |
| `ProofCoordinator` | the requests of the proof coordinator | one request at a time, the contract of `TaskRuntime` |
| `Libraries` | the client, the heap, the watcher and the proof store, which stand alone | instances side by side, at most one exercised per behaviour |
| `AllLibraries` | these, the builder and the reader of `#[rpc(...)]` | extends `Libraries`, `InscriptionBuilder` and `RpcAttribute`; one of the three moves, so its behaviours are behaviours of each |
| `Daemon` | start and stop through the PID file | – |
| `NodeProcess` | node, standalone sequencer and prover processes on one data directory | extends `Daemon` |
| `*Proofs` | theorems about the modules they extend (`NodeRecordProofs` goes on from `NodeProcessProofs`); `ToolkitProofs` is about `TaskRuntime` and `InscriptionBuilder`, `ElectionAndAttributeProofs` about `LeaderElection` and `RpcAttribute` | – |
| `MC*` | instances for TLC | – |

### TaskRuntime

`runner` is the position in `TaskRunner::listen`; "returned" is the time between
its return and the drop of its receivers, "gone" the time after. `requests` and
`shutdowns` are the two mpsc channels. Clients are the owners of handle clones,
the periodic loop and the task that `Drop` spawns; each awaits its answer, so a
message is identified by its client. `op` and `outcome` give where a client is and
how its last call ended (`Error::Send`, `Error::Receive`, the answer), `runs` counts
`handle_request` for its last call. Sending is one step when the channel has room.
A panic unwinds the runner and drops the channels. `select!` is a free choice
between `TakeRequest` and `TakeShutdown`. In the time between the answer to a
shutdown and the drop of the receivers the channel still takes messages that
nobody answers; if one comes from the task of `Drop`, that task panics on its
`unwrap`, and nothing else does.

### LeaderElection

Per pod: `pc` is the position in `run_with_k8s_coordination` and `shutdown`,
`amLeader` is `am_i_leader`, `epoch` and `cancelled` are the `LeaderEpoch`, `up`,
`dead` and `orphans` the tasks that serve, have panicked, or lost their handle and
have not stopped yet, `health` the endpoint. `failed` records that a task panicked or a
start failed in the process, the two ways for a handle to be dropped. `holder` and `valid` are the lease, an
external service: it is granted to its holder, or to anyone when free or expired.
A call to the API server takes effect in `Acquire` and is acted upon in a later
step; its answer may be an error although it took effect. `RenewEvery` is the
renewal period made from `LEASE_TTL_SECONDS`. Two constants select the
environment. `Timely`: a live pod renews, or stops its tasks, within the TTL, which
is possible only if the period is shorter than the TTL. `MayFail`: tasks may panic
and starting them may fail. Without `Timely` two pods can run tasks at the same
time: the code does not stop its tasks when a renewal takes longer than the TTL.

### BlockProducer, BatchProducer, Committer, Sequencer

A block is named by the `build_block` attempt that made it and numbered by its
place in `canon`. `build_block` is cut at its awaits: fill, store, cache updates,
fork choice, with a failure possible at each. State diffs are reduced to what the
size check distinguishes: log units, and a set of account fields (merging diffs is
union). Gas used, whether execution fails and whether an undone transaction gives
its gas back are free choices of the VM. `pop` drops all transactions of the
sender from the queue, `shift` only the head. `build_batch` is cut at each block of
its loop. `sealed` is the rollup store without the genesis batch; the blobs of a
batch are named by the updates that `prepare_state_diff` was called with
(`prepare_state_diff` itself is a stub in the code that ignores its arguments, and
the messages and privileged transactions of a block are stubs that are empty). A
request for a batch without new blocks fails (`NoFirstHeader`): the header of the
first block is asked for before the test for an empty batch.

`Committer` is the receiver of the broadcast channel of a producer: `inbox` and
`lagged` are its view of the channel, `held` the batch it works on, `published` the
messages in the queue since it subscribed. A lagged or closed channel, a failed
publish or gossip, the token or a signal end it. No binary starts one yet, so
`Subscribe` is optional; without a receiver the broadcast is an error after the
batch was sealed. `NewEpoch` is a new leader epoch in the same process with a new
producer and channel, `Crash` the end and restart of the process: blocks survive,
mempool, cache, rollup store, channel and committer do not.

### RpcServer, Prover, RpcClient

A POST is a set of requests; a request has a method (namespace, name, quoted or
not) and the kinds of its params. `Receive` parses and dispatches, `Answer` waits for
every request of the POST (`join_all`), `Dropped` is a closed connection: axum drops
the future, so every handler ends at the await it is at. `Prover` takes each lock of
the `JobStore` in a step of its own, for the handlers (`already_requested` is two
steps, then `InsertJob`, `SendJob`) and for the worker (`RemovePending`,
`InsertProof`). `queue` is the bounded channel. A job id is the sorted sequence of
the block hashes. The worker may panic while proving, which drops the queue and
then ends the server. `abandoned` records ids whose handler ended while it waited to
send: they stay pending in the code.

`RpcClient` is one call with a strategy, a list of URLs and a number of retries.
`NoResponse` is a refused or lost connection or the HTTP timeout; the POST may still
arrive and be served. A response that is no JSON is of the same kind of error, and a
result that cannot be decoded is `Error::SerdeJson`: the server has served the call, and
the client reports an error. `unread` are the POSTs of these two sorts. `is_retryable_error` accepts `Error::TimeOut` only, which
nothing returns: a timeout of the HTTP client is `Error::Reqwest`. So the retry
loop never tries a URL twice, which `AtMostOncePerUrl` states.

### UniqueHeap, BtcWatcher, InscriptionBuilder, ProofCoordinator, RpcAttribute

`UniqueHeap` holds the lock for one step; between finding the heap empty and
listening to the `Notify` a consumer holds nothing, and `notify_one` wakes the first
listener or stores one permit. `BlockQueue` is what its users may rely on, without a
word on waiting. `BtcWatcher` models the decoding of the four item types by what the
payload holds and how long it is, the broadcast channel by its log, in which an item
carries the number of its notification, and each receiver by what it got and what it
was told it missed. `InscriptionBuilder` cuts
`create_inscription_tx` at its calls of the wallet, each of which may fail before or
after it took effect; payloads are lengths, scripts the lengths of their pushes.
`ProofCoordinator` asks the store and writes it in two steps. `RpcAttribute` reads
an attribute token by token; where two errors apply, it reports the one that the code
tests first.

### Daemon, NodeProcess

Procs are the processes started on one data directory, in order. A start checks
the PID file, removes a stale one, and lets `daemonize` (external) lock and write it,
each in a step of its own, so that two starts and a stop can overlap; `overlaps`
counts the commands given while another is at work, and the properties that need
an operator who waits are stated for `Calm` (no overlap). `mem` is what a process
holds in memory (options, key, record sequence number, peers, health endpoint), and
`keyFile`, `config` and `pidFile` are the files. Files are written in two steps, so a
crash or SIGKILL can leave one truncated. `get_signer` makes and writes a new key upon
any error of the read, so a read of `node.key` may fail in the model although the file is
there; a read of a complete `node_config.json` does not. `GetPubKey` and `SavePubKey` are
the two steps of the command get-pub-key, which goes through `get_signer` too, beside the
process that serves. `last` is what the latest process that served had: its sequence
number, its peers, and its key until `--force` removes it or a failed read replaces it. `at` is the position in the main function,
`MojaveNode::init`, `MojaveNode::run`, the standalone branch of `run_sequencer` or
the prover's `start_api`.

## 3. Runs

| Run | Instance | Shows |
|---|---|---|
| `task` | 2 callers, periodic loop, capacity 1, fair | failed calls did not run, nobody is forgotten, shutdown is final, calls return, the periodic loop ends |
| `election` | 2 pods, 3 tasks, 1 restart, timely, no failures | exclusive producers, lease given back last |
| `election_faults` | 2 pods, 1 task, late renewals, panics, fair | no epoch without the lead, no task outlives its epoch unless one panicked or a start failed; there is a leader again and again |
| `election_panic` | 2 pods, 3 tasks, timely, with panics | **finding**: two pods run tasks after an early return of `stop_leader_tasks` |
| `election_signal` | 2 pods, 1 task, fair | **finding**: a SIGTERM is lost |
| `block` | 7 transactions, 2 attempts | transactions accounted for, blob limit, cache |
| `sequencer` | 6 attempts, 1 crash, a channel of capacity 1 | batches match the chain, ranges follow one another, no batch is skipped by the committer, older batches are provable |
| `batch_skip` | 5 attempts | **finding**: a block between two batches is left out |
| `prover` | 3 POSTs, 7 requests, queue of 1, panics, fair worker | published once, accepted is visible and gets proved, pending has its record, answers complete |
| `libraries` | see below | the client, the heap (and its refinement of `BlockQueue`), the watcher, the builder, the proof store, the attribute |
| `rpc_method` | 2 servers with the prover's handlers | **finding**: the client's method name reaches no handler |
| `node` | 3 processes, 1 overlapping command, 1 peer, failing reads of the key | PID file, identity, record and peers carry over; a shutdown ends |

Every property of a passing run has a mutant of a modelled definition (operators
with an underscore, such as `DropRunner_Forgets`) that violates it. The type
invariants are checked in `task`, `election` and `block`; the `TypeOK` of the other
modules describes their state and holds on the instances of their runs when it is
added to the configuration. `CoinsAreAccounted` is the conjunction of
`CoinsAreExclusive` and `LocksAreReleased`. The run `libraries` checks `AllSpec` of
`AllLibraries`, which implies the specifications that the theorems are about: `Spec` of
`Libraries`, `BuilderSpec` and `AttributeSpec`.

**The findings** are the places where the code does not do what a comment or a
document of the repository says; each is a run that TLC refutes. `PROJECT.json`
quotes the sentences. The other limits of the code that the models show, and about
which the repository says nothing, are excepted in the statements of the properties:
ids left in the pending set by a dropped handler (`PendingHasRecord`), the window
inside `upsert_proof` (`AcceptedIsVisible`), the newest batch (`OlderBatchesAreProvable`),
wake-ups with two consumers (`LoneConsumerIsServed`), coins locked by a call whose
answer was lost (`CoinsAreAccounted`), a daemon started with `--force` or together with
another (`PidFileNamesDaemon`), a key replaced because its file could not be read
(`IdentityIsOnDisk`), tasks that go on after a panic or a failed start
(`FollowerServesNothing`), a call that was served and whose answer could not be read
(`FailedCallStaysFailed`), a health client that stays silent (`ShutdownEnds`).

**Bounds.** Two owners and the periodic loop are enough for one client to be served
while another is queued and a third waits for room; with capacity 1 both channels
fill up. Two pods suffice for overlap, and the proofs cover any number.
`MaxRestarts` and `MaxCrashes` bound restarts, `MaxSignals` the pods that are sent a
SIGTERM (both pods, one in `election_faults`), `MaxAttempts` the calls of
`build_block`: two attempts give one failure and a block with the same number; six
give three batches with a failed block between them, which is one more than the
channel of the committer holds. Transactions cover one case of each branch of
`fill_transactions`. In `prover` two submissions are of the same blocks in another
order and a third fills the queue; the other requests take every branch of dispatch
and parameter parsing. In `libraries` the client has up to two URLs and up to two
retries, the heap two numbers with two blocks each and one or two consumers, the
watcher three item types and three notifications out of six with a channel of one,
the builder two calls on two coins with payloads below, at and above the size of a
push, the attribute up to three entries with or without a missing token. In `node`
three processes are a saved state, a disturbed start and the start after it;
`MaxOverlaps` is 1, the last start does not overlap, and no start follows the overlap.

**Fairness.** `TaskRuntime`: tokio schedules ready tasks and handlers terminate
(weak fairness); `select!` chooses among ready branches at random and the channel
semaphore is first-come first-served (strong fairness of taking a shutdown and of
sending). Callers are never obliged to act, and panics never have to occur.
`LeaderElection`: a live pod is scheduled, the API server answers, clients of the
health endpoint finish, a lease that is not renewed expires. Crashes and signals
are not fair. `Prover`: the worker is polled (weak). `UniqueHeap`: a consumer that can
go on does (weak). `NodeProcess`: the steps of a shutdown (weak); clients, commands
and crashes owe nothing. The other specifications state none.

## 4. Proofs

Each proof module has an inductive invariant, a lemma that an initial state has it,
one lemma per action or group of actions that a step keeps it, and theorems that
combine them.

`ToolkitProofs`, task framework, for any callers and any capacity: `TypeCorrect`, `AtMostOnce`,
`NoClientForgotten`, `ShutdownIsFinal`. `IInv` adds to the properties that the runner
works on a message exactly when it is handling or stopping (`Working`), that a
client is queued at most once (`QueuedOnce`), that no outcome is known and nothing
has run before a message is taken (`Pending`), that the task of `Drop` starts only
after every caller has gone (`DropperLast`), and that after an answered shutdown
the runner has returned (`AnsweredIsFinal`). The lemmas about channels relate a
sequence to the set of its clients.

`ToolkitProofs`, inscription builder, for any number of concurrent calls, coins,
payloads, size of a push and fee rate: `CoinsStayAccounted` and `RevealStaysValid`.
`CoinsInv` is the conjunction of the two halves of `CoinsAreAccounted` with the shape of
the state and `orphaned \subseteq locked`: each half needs the other, since a coin may be
picked only if nobody has it, and freed only by the call that does. `RevealInv` says that
from its preparation on a commit transaction has the script and the value of the payloads
of its call, and that the reveal transaction is made from it. What remains is arithmetic:
`ChunksCarry` says that the chunks of a payload of any length are pushes of 1 to `MaxPush`
bytes and add up to the payload.

`ElectionAndAttributeProofs`, leader election, for any pods, tasks and restarts: `ElectionTypeCorrect` and
`FollowersAreQuiet` without assumptions on the environment; `LeaseReleasedLast`
without panics and failed starts (`~MayFail`); `LeaderHoldsLease` with `Timely`;
`OneLeader` with both; `RenewalFitsTtl` says for which TTLs `Timely` can hold.
`EpochInv` ties the tasks to the epoch and the epoch to `amLeader`, and says that a task
is dead or has lost its handle only where one panicked or a start failed; `LeaseInv` says
that a pod that leads, or was just told so, holds a valid lease, which only timely
renewal keeps true; `NoOrphans` that no task has lost its handle. The run
`election_panic` shows that `~MayFail` cannot be dropped.

`ElectionAndAttributeProofs`, the `#[rpc]` attribute, for any entries:
`AttributesReadBack`. `ReaderInv` says where the parser is in the attribute from the number
of tokens it has read: the tokens left are the last ones that were written, what it looks
for follows from that number modulo four, the key it holds is that of the entry it is in,
and `namespace` and `method` are the last values among the entries it has passed
(`IsLast`). The attribute may lack a token in the model, but then nothing is claimed, as
the code may read it as something else.

`BlockProducerProofs`, for any transactions and any number of attempts:
`BlocksTypeCorrect`, `CacheAlwaysMatches`, `TxsStayInOnePlace`, `BlocksFitBlob`.
`ChainInv` says that the attempt that is building is newer than the chain is long, so
that its number is one of the cache's, and that the last entry cached is that of the
block being built; `PlacesInv` that the places of a transaction exclude one another,
hold all that were handed in, and that what is queued is still in the mempool;
`SumInv` that the running sums of `fill_transactions` are the sums of the payload, in
its order. `DiffSize` computes the size of a state diff afresh from the transactions of a
block; `DiffSizeIsSum` shows that the running sums agree with it.

The recursive sums (`DiffSize`, `SumOf`) are the only places where something is shown by
induction. The library's induction theorems take a predicate as a parameter, so the proofs
use that a non-empty set of numbers has a least one (`LeastNumber`, from the
well-foundedness of `<`): the least index at which a sum would be wrong is not 0, and the
index before it gives the contradiction.

`SequencerProofs`, for any number of blocks, batches, epochs and crashes, with the
committer beside them: `BatchesMatchChain`, `LastBatchStaysStored`,
`RangesAlwaysFollow`, `OlderBatchesStayProvable`, `NoBatchIsSkipped`. `ChainInv` says
that what the cache holds for a canonical number are the updates of the block with
that number, and which block `build_block` is at; `Grows`, that a step only appends to
the chain. `OpenInv` describes a batch under construction: it has the updates of the
blocks from `first_block` up to `current_block`, each block's own, and the state root
of the last. `Matches` is the property of one batch, which a growing chain keeps
(`MatchesStays`). `BatchInv` puts these together with the counter and the ranges.
`ClaimInv` says that a batch claims one block more than its blobs hold, which is why
the newest one can lack a block that the prover needs. `LineInv` puts what the committer
published, holds and has in its channel in one line of consecutive batches, which
without an overflow ends right before the batch that is sent next; an overflow breaks
the line only in the channel, behind the batch that is held, and a committer that
lags ends at its next receive.

`ProverProofs`, for any POSTs, requests and queue capacity: `AnswersStayComplete` from
`ServerInv` (a handler runs only for an open POST); `AcceptedStaysVisible` from
`VisibleInv` (from the insertion of its id on, a job is pending, proved, or between the
two locks); `PendingKeepsRecord` from `QueueInv` (the queue holds records of
submissions) and the fact that a handler leaves its send only
by sending, failing or being dropped; `PublishedAtMostOnce` from `SentInv` (what is
published was marked before, and the job at hand is marked but not published);
`LateDuplicatesAreRefused` from `Late`, which once true of a submission stays true: its
proof is stored, proofs are never removed, and its handler has not got past
`already_requested`.

`NodeProcessProofs` and `NodeRecordProofs`, for any processes, peers and overlapping
commands: `ProcessesTypeCorrect`, and for commands given one at a time (`Calm`)
`PidFileAlwaysNamesDaemon`, `IdentityStaysOnDisk`, `PeersStayRemembered` and
`RecordsStayNewer`. `TypeInv` adds to the types that the prover is never at a place of
the other two programs. `TurnInv` says that one process at a time starts and one
serves, and that nobody starts while get-pub-key writes, `PidInv` that a daemon that serves wrote the PID file and nobody after it,
`KeyInv` that the file and a process past `get_signer` have the key of the process that
served last, if that key was not removed or replaced, `SeqInv` how the
sequence number and the peers in memory compare, at each place of the start and of the
shutdown, with those in the files and those of the process that served last.

`LibrariesProofs`. A step of `Libraries` is a step of one part or of none (`HeapSteps`,
`ClientSteps`, and so on), so an inductive invariant of a part is one of the whole.
- Heap, for any numbers, hashes and consumers: `KeysAlwaysMatch`, `HeapIsBlockQueue`
  and `HeapStaysBlockQueue`, the refinement: every step of the heap is a step of
  `BlockQueue` or leaves it alone, because the key set mirrors the heap (`HeapInv`).
- Proof coordinator, for any batches, types and proofs: `FirstProofAlwaysStays`.
  `CoordinatorInv` says that between the look-up and the write the request stays the
  same and its place stays empty.
- Client, for any lists of different URLs and any number of retries:
  `PostedOncePerUrl` from `OnceInv` (the retry loop is at its first attempt whenever it
  makes one), `FailedCallsStayFailed` from `SettledInv` (a POST that was made is awaited,
  not read, or was answered with an error, unless the call has succeeded).
- Watcher, for any capacity, receivers and notifications: `NeverASilentGap` from `RxInv`
  (what a receiver got and missed is what was sent since it subscribed) and `LogInv` (the
  log has the items of the notifications with a payload, in their order).

The assumptions on constants are `TaskConstants`, `ElectionConstants`,
`BlockConstants` (sizes are natural numbers, an empty block fits a blob, the fields of
a transaction are finite), `SequencerBounds` (the bounds are natural numbers),
`ChannelHasRoom` (tokio refuses a broadcast channel of capacity 0),
`RequestsBelongToPosts` (a request belongs to one POST), `ProverConstants`,
`JobIdIsOfTheSet` (no input names a block twice, so that a job id stands for a set of
blocks), `ProcessConstants` (the values for "no process" and "no file" are not
processes or files), `InscriptionConstants` (a push has room for a byte; lengths, amounts
and the fee rate are unsigned), `AttributeTokens` (a token tells by its kind whether it is
an identifier, a literal or punctuation), and in `Libraries` `OneRequestPerPost`, `UrlsDiffer` (POSTs are named
by URL and attempt, so the model has no list that names a URL twice),
`WatcherConstants` and `NoProofIsNone`. TLC evaluates each of them in a run.

Only model-checked are:
- the liveness properties, which the prover cannot handle: `EveryCallReturns`,
  `PeriodicLoopStops`, `LeaderAgain`, `AcceptedIsProved`, `LoneConsumerIsServed`,
  `ShutdownEnds`;
- the `TypeOK` of the modules other than `TaskRuntime`, `LeaderElection`, `BlockProducer`
  and `NodeProcess`: the proofs use only the parts of it that they need;
- the findings, which are counterexamples.

## 5. Not modelled

- Everything inside ethrex (VM, stores, p2p protocol, the import of blocks from
  peers), Kubernetes, Bitcoin, `daemonize`, axum, tokio and the proving libraries:
  they appear by what the code relies on.
- Signatures, hashing and key derivation: libraries without state. `ingest_signed_block`
  verifies a signature and pushes to the heap, but no handler calls it; the push is in
  `UniqueHeap`.
- The JWT secret file of the node, which only the authenticated RPC of ethrex reads,
  and the periodic clean-up of its RPC filters.
- The relative path of get-pub-key: the node resolves a relative `--datadir` against
  the home directory (`resolve_data_dir`), the command "Display the public key of the node"
  (`src/cmd/node/src/cli.rs:330`) takes it as given (line 339), so it shows, or creates, a key in
  the working directory. The model has one data directory and is about an absolute path.
- Option parsing, parsing of enodes and network names, address lookup, logging,
  configuration defaults, error types and the code that the `#[rpc]` macro emits beyond
  the registered name and the parsing of params: no state or behaviour of their own.
- Time: delays, periods and timeouts are choices of when a step happens; the lengths
  of retry delays do not matter since no retry takes place, and the only comparison
  of durations, the renewal period against the TTL, is proved (`RenewalFitsTtl`).
- Stubs: the commit of a batch to L1, `prepare_state_diff`, messages and privileged
  transactions, `ProcessBatch` of the proof coordinator beyond its acknowledgement, and
  the dummy message queue.
- Contents of headers, transactions, blobs and proofs beyond what the properties
  tell apart.
