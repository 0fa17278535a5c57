--------------------------- MODULE LibrariesProofs ---------------------------
(***************************************************************************)
(* Proofs about the parts that Libraries puts side by side.  Each part has *)
(* an inductive invariant of its own; a step of the whole is a step of one *)
(* part or of none, so each invariant holds of the whole:                  *)
(*                                                                         *)
(*  - the heap of pending blocks, for any numbers, hashes and consumers:   *)
(*    it implements BlockQueue;                                            *)
(*  - the proof coordinator, for any batches, types and proofs: the first  *)
(*    proof stays;                                                         *)
(*  - the JSON-RPC client, for any lists of different URLs and any number  *)
(*    of retries: what it POSTs, and what a failed call leaves behind;     *)
(*  - the watcher of Bitcoin notifications, for any capacity, receivers    *)
(*    and notifications: no gap that nobody is told of.                    *)
(***************************************************************************)
EXTENDS Libraries, Integers, TLAPS

-----------------------------------------------------------------------------
(* The parts side by side: each of them makes its own steps or none. *)

LEMMA PartsStart ==
  Init => /\ Client!Init /\ Heap!Init /\ Watcher!Init /\ Coordinator!CoordinatorInit
BY DEF Init

LEMMA HeapSteps == [Next]_vars => [Heap!Next]_(Heap!vars)
BY DEF Next, vars, Heap!vars, Heap!notifyVars, heapVars, ClientOnly, WatcherOnly, CoordinatorOnly

LEMMA CoordinatorSteps == [Next]_vars => [Coordinator!CoordinatorNext]_(Coordinator!coordinatorVars)
BY DEF Next, vars, Coordinator!coordinatorVars, proofVars, ClientOnly, HeapOnly, WatcherOnly

LEMMA WatcherSteps == [Next]_vars => [Watcher!Next]_(Watcher!vars)
BY DEF Next, vars, Watcher!vars, watcherVars, ClientOnly, HeapOnly, CoordinatorOnly

LEMMA ClientSteps == [Next]_vars => [Client!Next]_(Client!vars)
BY DEF Next, vars, Client!vars, Client!clientVars, clientVars, HeapOnly, WatcherOnly, CoordinatorOnly

-----------------------------------------------------------------------------
(* The heap. *)

\* The invariant of the two theorems: the heap holds blocks, and its keys are keys.
HeapInv == heap \subseteq Heap!Block /\ Heap!KeysMatch

LEMMA HeapInvInitially == Heap!Init => HeapInv
BY DEF Heap!Init, HeapInv, Heap!KeysMatch

\* push looks in keys and adds to both; pop takes a block and its key from both; the
\* steps of the Notify and of peek leave both alone.
LEMMA HeapInvIsKept == HeapInv /\ [Heap!Next]_(Heap!vars) => HeapInv'
<1> SUFFICES ASSUME HeapInv, [Heap!Next]_(Heap!vars) PROVE HeapInv'
  OBVIOUS
<1>1. ASSUME NEW b \in Heap!Block, Heap!push(b) PROVE HeapInv'
  <2>1. CASE Heap!Key(b) \notin keys
    <3>1. heap' = heap \cup {b} /\ keys' = keys \cup {Heap!Key(b)}
      BY <1>1, <2>1 DEF Heap!push
    <3>2. heap' \subseteq Heap!Block
      BY <3>1 DEF HeapInv
    <3>3. keys' = {Heap!Key(d) : d \in heap'}
      BY <3>1 DEF HeapInv, Heap!KeysMatch
    <3>4. \A c, d \in heap' : Heap!Key(c) = Heap!Key(d) => c = d
      BY <3>1, <2>1 DEF HeapInv, Heap!KeysMatch
    <3> QED  BY <3>2, <3>3, <3>4 DEF HeapInv, Heap!KeysMatch
  <2>2. CASE Heap!Key(b) \in keys
    BY <1>1, <2>2 DEF Heap!push, HeapInv, Heap!KeysMatch
  <2> QED  BY <2>1, <2>2
<1>2. ASSUME NEW c \in consumers, Heap!pop(c) PROVE HeapInv'
  <2>1. PICK b \in heap : heap' = heap \ {b} /\ keys' = keys \ {Heap!Key(b)}
    BY <1>2 DEF Heap!pop
  <2>2. keys' = {Heap!Key(d) : d \in heap'}
    BY <2>1 DEF HeapInv, Heap!KeysMatch
  <2> QED  BY <2>1, <2>2 DEF HeapInv, Heap!KeysMatch
<1>3. ASSUME heap' = heap, keys' = keys PROVE HeapInv'
  BY <1>3 DEF HeapInv, Heap!KeysMatch
<1>4. ASSUME NEW c \in consumers, Heap!peek(c) \/ Heap!Empty(c) \/ Heap!notified(c) PROVE HeapInv'
  BY <1>3, <1>4 DEF Heap!peek, Heap!Empty, Heap!notified
<1>5. ASSUME NEW c \in consumers, NEW o \in Heap!Ops, Heap!Call(c, o) PROVE HeapInv'
  BY <1>3, <1>5 DEF Heap!Call
<1>6. CASE UNCHANGED Heap!vars
  BY <1>3, <1>6 DEF Heap!vars
<1> QED  BY <1>1, <1>2, <1>4, <1>5, <1>6 DEF Heap!Next, Heap!Run

\* unique_heap.rs: the set of keys never drifts from the heap, however pushes, pops,
\* peeks and waits of any number of consumers interleave.
THEOREM KeysAlwaysMatch == Heap!Spec => []Heap!KeysMatch
<1>1. HeapInv => Heap!KeysMatch
  BY DEF HeapInv
<1> QED  BY HeapInvInitially, HeapInvIsKept, <1>1, PTL DEF Heap!Spec

-----------------------------------------------------------------------------
(* The refinement. *)

LEMMA StepOfQueue ==
  HeapInv /\ [Heap!Next]_(Heap!vars) => [Heap!Queue!Next]_<<heap, returned>>
<1> SUFFICES ASSUME HeapInv, [Heap!Next]_(Heap!vars) PROVE Heap!Queue!Next \/ UNCHANGED <<heap, returned>>
  OBVIOUS
<1> USE DEF Heap!Queue!Returned, Heap!Returned
<1>1. ASSUME NEW b \in Heap!Block, Heap!push(b) PROVE Heap!Queue!Next
  <2>1. Heap!Key(b) \in keys <=> \E c \in heap : c.number = b.number
    BY DEF HeapInv, Heap!KeysMatch, Heap!Key
  <2>2. Heap!Queue!Push(b)
    BY <1>1, <2>1 DEF Heap!push, Heap!Queue!Push
  <2> QED  BY <2>2 DEF Heap!Queue!Next, Heap!Queue!Block, Heap!Block
<1>2. ASSUME NEW c \in consumers, Heap!pop(c) PROVE Heap!Queue!Next
  <2>1. Heap!Queue!Pop
    BY <1>2, Zenon DEF Heap!pop, Heap!Greatest, Heap!Queue!Pop, Heap!Queue!Lowest
  <2> QED  BY <2>1 DEF Heap!Queue!Next
<1>3. ASSUME NEW c \in consumers, Heap!peek(c) PROVE Heap!Queue!Next
  <2>1. Heap!Queue!Peek
    BY <1>3, Zenon DEF Heap!peek, Heap!Greatest, Heap!Queue!Peek, Heap!Queue!Lowest
  <2> QED  BY <2>1 DEF Heap!Queue!Next
<1>4. ASSUME NEW c \in consumers, Heap!Empty(c) PROVE Heap!Queue!Next \/ UNCHANGED <<heap, returned>>
  <2>1. CASE op[c] \in {"pop", "peek"}
    BY <1>4, <2>1 DEF Heap!Empty, Heap!Queue!Pop, Heap!Queue!Peek, Heap!Queue!Next
  <2>2. CASE op[c] \notin {"pop", "peek"}
    BY <1>4, <2>2 DEF Heap!Empty
  <2> QED  BY <2>1, <2>2
<1>5. ASSUME NEW c \in consumers, Heap!notified(c) PROVE UNCHANGED <<heap, returned>>
  BY <1>5 DEF Heap!notified
<1>6. ASSUME NEW c \in consumers, NEW o \in Heap!Ops, Heap!Call(c, o) PROVE UNCHANGED <<heap, returned>>
  BY <1>6 DEF Heap!Call
<1>7. CASE UNCHANGED Heap!vars
  BY <1>7 DEF Heap!vars
<1> QED  BY <1>1, <1>2, <1>3, <1>4, <1>5, <1>6, <1>7 DEF Heap!Next, Heap!Run

\* AsyncUniqueHeap implements the queue its users see: every call that returns is a step
\* of BlockQueue, and waiting on the Notify is invisible.
THEOREM HeapIsBlockQueue == Heap!Spec => Heap!IsBlockQueue
<1>1. Heap!Init => Heap!Queue!Init
  BY DEF Heap!Init, Heap!Queue!Init, Heap!Queue!Returned, Heap!Returned
<1> QED
  BY <1>1, HeapInvInitially, HeapInvIsKept, StepOfQueue, PTL DEF Heap!Spec, Heap!IsBlockQueue, Heap!Queue!Spec

\* The same for the heap beside the other parts.
THEOREM HeapStaysBlockQueue == Spec => IsBlockQueue
<1>1. Heap!Init => Heap!Queue!Init
  BY DEF Heap!Init, Heap!Queue!Init, Heap!Queue!Returned, Heap!Returned
<1> QED
  BY <1>1, PartsStart, HeapSteps, HeapInvInitially, HeapInvIsKept, StepOfQueue, PTL
  DEF Spec, IsBlockQueue, Heap!IsBlockQueue, Heap!Queue!Spec

-----------------------------------------------------------------------------
(* The proof coordinator. *)

\* The inductive invariant.  Between the answer of get_proof_by_batch_and_type and
\* store_proof the request stays the one that was looked up, and its place stays empty.
CoordinatorInv ==
  /\ DOMAIN stored = ProofBatches \X ProverTypes
  /\ response = "none" =>
       /\ request.kind = "StoreProof"
       /\ <<request.batch, request.type>> \in ProofBatches \X ProverTypes
       /\ request.proof \in ProofIds
       /\ stored[<<request.batch, request.type>>] = NoProof

\* What FirstProofStays says of a step.
ProofStep ==
  /\ response' = "Ack" /\ request'.kind = "StoreProof"
       => stored'[<<request'.batch, request'.type>>] # NoProof
  /\ \A k \in DOMAIN stored : stored[k] # NoProof => stored'[k] = stored[k]

LEMMA CoordinatorInvInitially == Coordinator!CoordinatorInit => CoordinatorInv
BY DEF Coordinator!CoordinatorInit, CoordinatorInv

\* handle_request looks the proof up; an Ack at once is for a proof that is there.
LEMMA HandleRequestKeeps ==
  ASSUME CoordinatorInv, NEW r \in Coordinator!Requests, Coordinator!handle_request(r)
  PROVE  CoordinatorInv' /\ ProofStep
<1>1. request' = r /\ stored' = stored
  BY DEF Coordinator!handle_request
<1>2. r.kind \in {"ProcessBatch", "StoreProof"}
  BY DEF Coordinator!Requests
<1>3. CASE r.kind = "ProcessBatch"
  <2>1. response' = "Ack"
    BY <1>3 DEF Coordinator!handle_request
  <2> QED  BY <1>1, <1>3, <2>1 DEF CoordinatorInv, ProofStep
<1>4. CASE r.kind = "StoreProof" /\ r.proof = "error"
  <2>1. response' = "ProofFailed"
    BY <1>4 DEF Coordinator!handle_request
  <2> QED  BY <1>1, <2>1 DEF CoordinatorInv, ProofStep
<1>5. CASE r.kind = "StoreProof" /\ r.proof # "error"
  <2>1. /\ r.batch \in ProofBatches /\ r.type \in ProverTypes
        /\ r.proof \in ProofIds
    BY <1>5 DEF Coordinator!Requests
  <2>2. \/ response' = "storeError"
        \/ response' = "Ack" /\ stored[<<r.batch, r.type>>] # NoProof
        \/ response' = "none" /\ stored[<<r.batch, r.type>>] = NoProof
    BY <1>5 DEF Coordinator!handle_request, Coordinator!get_proof_by_batch_and_type
  <2> QED  BY <1>1, <1>5, <2>1, <2>2 DEF CoordinatorInv, ProofStep
<1> QED  BY <1>2, <1>3, <1>4, <1>5

\* store_proof writes to a place that was empty.
LEMMA StoreProofKeeps ==
  ASSUME CoordinatorInv, Coordinator!store_proof PROVE CoordinatorInv' /\ ProofStep
<1>1. request' = request /\ response = "none"
  BY DEF Coordinator!store_proof
<1> DEFINE k == <<request.batch, request.type>>
<1>2. k \in DOMAIN stored /\ request.proof # NoProof /\ stored[k] = NoProof
  BY <1>1, NoProofIsNone DEF CoordinatorInv
<1>3. CASE stored' = [stored EXCEPT ![k] = request.proof] /\ response' = "Ack"
  <2>1. /\ DOMAIN stored' = DOMAIN stored /\ stored'[k] = request.proof
        /\ \A j \in DOMAIN stored : j # k => stored'[j] = stored[j]
    BY <1>2, <1>3
  <2>2. CoordinatorInv'
    BY <1>3, <2>1 DEF CoordinatorInv
  <2>3. ProofStep
    BY <1>1, <1>2, <2>1 DEF ProofStep
  <2> QED  BY <2>2, <2>3
<1>4. CASE response' = "storeError" /\ stored' = stored
  BY <1>4 DEF CoordinatorInv, ProofStep
<1> QED  BY <1>3, <1>4 DEF Coordinator!store_proof

LEMMA CoordinatorInvIsKept ==
  CoordinatorInv /\ [Coordinator!CoordinatorNext]_(Coordinator!coordinatorVars)
    => CoordinatorInv' /\ [ProofStep]_(Coordinator!coordinatorVars)
<1>1. ASSUME CoordinatorInv, UNCHANGED Coordinator!coordinatorVars PROVE CoordinatorInv'
  BY <1>1 DEF Coordinator!coordinatorVars, CoordinatorInv
<1> QED  BY <1>1, HandleRequestKeeps, StoreProofKeeps DEF Coordinator!CoordinatorNext

\* proof-coordinator: an acknowledged proof is in the store, and the proof that was
\* stored first for a batch and a type of prover is never replaced.
THEOREM FirstProofAlwaysStays == Spec => FirstProofStays
<1>1. ProofStep <=>
        /\ response' = "Ack" /\ request'.kind = "StoreProof"
             => stored'[<<request'.batch, request'.type>>] # NoProof
        /\ \A k \in DOMAIN stored : stored[k] # NoProof => stored'[k] = stored[k]
  BY DEF ProofStep
<1> QED
  BY <1>1, PartsStart, CoordinatorInvInitially, CoordinatorSteps, CoordinatorInvIsKept, PTL
  DEF Spec, FirstProofStays, Coordinator!FirstProofStays

-----------------------------------------------------------------------------
(* The client. *)

\* A URL gets one POST: an error of the HTTP client is not retried, so the loop of the
\* sequential strategy is at its first attempt whenever it makes one.
OnceInv ==
  /\ conf \in [strategy : {"sequential", "race"}, urls : UrlLists, max_retries : MaxRetries]
  /\ url \in Nat
  /\ posted \subseteq Client!FirstTries(conf.urls)
  /\ step = "start" => posted = {} /\ attempt = 0
  /\ step = "try" => attempt = 0 /\ url \in DOMAIN conf.urls

\* A POST that was made is awaited, not read, or was answered with an error, unless
\* the call has succeeded; the servers work on no other.
Failed(p) == post[p] = "answered" /\ call[p] \notin {"ok", "running"}

SettledInv ==
  /\ DOMAIN post = Posts /\ DOMAIN call = Posts
  /\ \A p \in Posts : call[p] = "running" => post[p] = "open"
  /\ \A p \in Posts : call[p] \in {"ok", "running"} => p \in posted
  /\ step \in {"start", "try", "wait", "done"}
  /\ outcome \in {"none", "ok"} \cup Client!Errors
  /\ step # "done" => outcome = "none"
  /\ step # "wait" => waiting = {}
  /\ waiting \subseteq posted
  /\ conf.strategy = "sequential" => \A p, q \in waiting : p = q
  /\ outcome # "ok" =>
       \A p \in Posts : p \in posted => p \in waiting \/ p \in unread \/ Failed(p)

ClientInv == OnceInv /\ SettledInv

LEMMA ClientInvInitially == Client!Init => ClientInv
<1> SUFFICES ASSUME Client!Init PROVE ClientInv
  OBVIOUS
<1>1. OnceInv
  BY DEF Client!Init, OnceInv
<1>2. post = [p \in Posts |-> "new"] /\ call = [p \in Posts |-> "idle"]
  BY OneRequestPerPost DEF Client!Init, Client!ServerInit
<1>3. SettledInv
  BY <1>2 DEF Client!Init, SettledInv
<1> QED  BY <1>1, <1>3 DEF ClientInv

LEMMA UrlCount == ASSUME OnceInv PROVE Len(conf.urls) \in Nat /\ DOMAIN conf.urls = 1..Len(conf.urls)
BY UrlsDiffer DEF OnceInv

\* What the end of an attempt does to the client: the last URL and the last of a race
\* return the error, an error before that goes on.
LEMMA FailMoves ==
  ASSUME ClientInv, NEW p \in waiting, NEW e \in {"custom", "reqwest", "serdeJson"},
         Client!Fail(p, e)
  PROVE  /\ step = "wait" /\ waiting' = waiting \ {p}
         /\ \/ step' = "wait" /\ UNCHANGED <<url, outcome>>
            \/ /\ step' = "try" /\ outcome' = outcome /\ attempt' = 0 /\ waiting' = {}
               /\ url' = url + 1 /\ url < Len(conf.urls)
            \/ step' = "done" /\ outcome' \in Client!Errors /\ url' = url /\ waiting' = {}
<1>1. step = "wait"
  BY DEF ClientInv, SettledInv
<1>2. CASE conf.strategy = "race"
  BY <1>1, <1>2 DEF Client!Fail, Client!Return, Client!Errors
<1>3. CASE conf.strategy = "sequential"
  <2>1. waiting \ {p} = {}
    BY <1>3 DEF ClientInv, SettledInv
  <2>2. Client!NextUrl(e)
    BY <1>3 DEF Client!Fail, Client!is_retryable_error
  <2>3. CASE url < Len(conf.urls)
    BY <1>1, <2>1, <2>2, <2>3 DEF Client!NextUrl
  <2>4. CASE ~(url < Len(conf.urls))
    BY <1>1, <2>1, <2>2, <2>4 DEF Client!NextUrl, Client!Return, Client!Errors
  <2> QED  BY <2>3, <2>4, Zenon
<1>4. conf.strategy \in {"sequential", "race"}
  BY DEF ClientInv, OnceInv
<1> QED  BY <1>2, <1>3, <1>4, Zenon

LEMMA StartKeeps == ASSUME ClientInv, Client!Start PROVE ClientInv'
<1>1. step = "start" /\ posted = {} /\ attempt = 0 /\ waiting = {} /\ outcome = "none"
  BY DEF Client!Start, ClientInv, OnceInv, SettledInv
<1>2. /\ UNCHANGED <<post, call, conf, attempt, unread>> /\ posted' = waiting'
      /\ \/ step' = "done" /\ outcome' = "noUrls" /\ waiting' = {} /\ url' = url
         \/ /\ step' = "try" /\ url' = 1 /\ conf.urls # <<>> /\ conf.strategy = "sequential"
            /\ UNCHANGED <<waiting, outcome>>
         \/ /\ step' = "wait" /\ waiting' = Client!FirstTries(conf.urls)
            /\ conf.strategy = "race" /\ UNCHANGED <<url, outcome>>
  <2>1. CASE conf.urls = <<>>
    BY <2>1 DEF Client!Start, Client!Return
  <2>2. CASE conf.urls # <<>> /\ conf.strategy = "sequential"
    BY <2>2 DEF Client!Start
  <2>3. CASE conf.urls # <<>> /\ conf.strategy = "race"
    BY <2>3, Zenon DEF Client!Start
  <2> QED  BY <2>1, <2>2, <2>3 DEF ClientInv, OnceInv
<1>3. conf.urls # <<>> => 1 \in DOMAIN conf.urls
  <2>1. conf.urls \in Seq({conf.urls[i] : i \in DOMAIN conf.urls})
    BY UrlsDiffer DEF ClientInv, OnceInv
  <2>2. conf.urls # <<>> => Len(conf.urls) # 0
    BY <2>1
  <2> QED  BY <2>2, UrlCount DEF ClientInv
<1>4. OnceInv'
  BY <1>1, <1>2, <1>3 DEF ClientInv, OnceInv, Client!FirstTries
<1>5. \A p \in Posts : call[p] \notin {"ok", "running"}
  BY <1>1, Zenon DEF ClientInv, SettledInv
<1>6. SettledInv'
  BY <1>1, <1>2, <1>5 DEF ClientInv, SettledInv, Client!Errors
<1> QED  BY <1>4, <1>6 DEF ClientInv

LEMMA TryKeeps == ASSUME ClientInv, Client!Try PROVE ClientInv'
<1>1. /\ step = "try" /\ attempt = 0 /\ url \in DOMAIN conf.urls /\ waiting = {} /\ outcome = "none"
      /\ UNCHANGED <<post, call, conf, unread>>
  BY DEF Client!Try, ClientInv, OnceInv, SettledInv
<1>2. CASE attempt < conf.max_retries
  <2>1. /\ waiting' = {<<conf.urls[url], 1>>} /\ posted' = posted \cup waiting'
        /\ step' = "wait" /\ UNCHANGED <<url, outcome>>
    BY <1>1, <1>2 DEF Client!Try
  <2>2. OnceInv'
    BY <1>1, <2>1, Zenon DEF ClientInv, OnceInv, Client!FirstTries
  <2>3. SettledInv'
    BY <1>1, <2>1 DEF ClientInv, SettledInv, Failed
  <2> QED  BY <2>2, <2>3 DEF ClientInv
<1>3. CASE ~(attempt < conf.max_retries)
  <2>1. Client!NextUrl("retryFailed") /\ posted' = posted
    BY <1>3 DEF Client!Try
  <2>2. CASE url < Len(conf.urls)
    <3>1. /\ step' = "try" /\ url' = url + 1 /\ attempt' = 0 /\ waiting' = {} /\ outcome' = outcome
          /\ url + 1 \in DOMAIN conf.urls
      BY <2>1, <2>2, UrlCount DEF Client!NextUrl, ClientInv, OnceInv
    <3>2. OnceInv'
      BY <1>1, <2>1, <3>1 DEF ClientInv, OnceInv
    <3>3. SettledInv'
      BY <1>1, <2>1, <3>1 DEF ClientInv, SettledInv, Failed
    <3> QED  BY <3>2, <3>3 DEF ClientInv
  <2>3. CASE ~(url < Len(conf.urls))
    <3>1. step' = "done" /\ outcome' = "retryFailed" /\ waiting' = {} /\ url' = url
      BY <2>1, <2>3 DEF Client!NextUrl, Client!Return
    <3>2. OnceInv'
      BY <1>1, <2>1, <3>1 DEF ClientInv, OnceInv
    <3>3. SettledInv'
      BY <1>1, <2>1, <3>1 DEF ClientInv, SettledInv, Failed, Client!Errors
    <3> QED  BY <3>2, <3>3 DEF ClientInv
  <2> QED  BY <2>2, <2>3
<1> QED  BY <1>2, <1>3, Zenon

\* An attempt that ends without success leaves p not read or answered with an error.
LEMMA FailKeeps ==
  ASSUME ClientInv, NEW p \in waiting, NEW e \in {"custom", "reqwest", "serdeJson"},
         Client!Fail(p, e), UNCHANGED <<post, call, conf, posted>>, unread \subseteq unread',
         p \in unread' \/ Failed(p)
  PROVE  ClientInv'
<1>1. /\ step = "wait" /\ waiting' = waiting \ {p}
      /\ \/ step' = "wait" /\ UNCHANGED <<url, outcome>>
         \/ /\ step' = "try" /\ outcome' = outcome /\ attempt' = 0 /\ waiting' = {}
            /\ url' = url + 1 /\ url < Len(conf.urls)
         \/ step' = "done" /\ outcome' \in Client!Errors /\ url' = url /\ waiting' = {}
  BY FailMoves
<1>2. url < Len(conf.urls) => url + 1 \in DOMAIN conf.urls
  BY UrlCount DEF ClientInv, OnceInv
<1>3. OnceInv'
  BY <1>1, <1>2 DEF ClientInv, OnceInv
<1>4. outcome = "none"
  BY <1>1 DEF ClientInv, SettledInv
<1>5. /\ outcome' \in {"none"} \cup Client!Errors /\ (step' # "done" => outcome' = "none")
      /\ step' \in {"start", "try", "wait", "done"} /\ (step' # "wait" => waiting' = {})
  BY <1>1, <1>4
<1>6. \A q \in Posts : q \in posted' => q \in waiting' \/ q \in unread' \/ Failed(q)'
  BY <1>1, <1>4, Zenon DEF ClientInv, SettledInv, Failed
<1>7. SettledInv'
  BY <1>1, <1>5, <1>6 DEF ClientInv, SettledInv
<1> QED  BY <1>3, <1>7 DEF ClientInv

LEMMA ResponseKeeps ==
  ASSUME ClientInv, NEW p \in Posts, Client!Response(p) PROVE ClientInv'
<1>1. p \in waiting /\ post[p] = "answered" /\ UNCHANGED <<post, call, conf, posted>>
  BY Zenon DEF Client!Response
<1>2. CASE call[p] = "ok" /\ Client!Return("ok") /\ UNCHANGED <<url, attempt, unread>>
  <2>1. outcome' = "ok" /\ step' = "done" /\ waiting' = {}
    BY <1>2 DEF Client!Return
  <2>2. OnceInv'
    BY <1>1, <1>2, <2>1, Zenon DEF ClientInv, OnceInv
  <2>3. SettledInv'
    BY <1>1, <2>1 DEF ClientInv, SettledInv
  <2> QED  BY <2>2, <2>3 DEF ClientInv
<1>3. CASE call[p] = "ok" /\ Client!Fail(p, "serdeJson") /\ unread' = unread \cup {p}
  BY <1>1, <1>3, FailKeeps
<1>4. CASE call[p] # "ok" /\ Client!Fail(p, "custom") /\ UNCHANGED unread
  <2>1. Failed(p)
    BY <1>1, <1>4 DEF ClientInv, SettledInv, Failed
  <2> QED  BY <1>1, <1>4, <2>1, FailKeeps, Zenon
<1> QED  BY <1>2, <1>3, <1>4, Zenon DEF Client!Response

LEMMA NoResponseKeeps ==
  ASSUME ClientInv, NEW p \in Posts, Client!NoResponse(p) PROVE ClientInv'
BY FailKeeps DEF Client!NoResponse

\* The steps of the servers: one POST moves, and the client does not.
LEMMA ServerMoves ==
  ASSUME ClientInv, NEW p \in Posts, UNCHANGED Client!clientVars,
         DOMAIN post' = Posts, DOMAIN call' = Posts,
         \A q \in Posts : q # p => post'[q] = post[q] /\ call'[q] = call[q],
         ~Failed(p), call'[p] = "running" => post'[p] = "open",
         call'[p] \in {"ok", "running"} => p \in posted
  PROVE  ClientInv'
<1>1. UNCHANGED <<conf, step, url, attempt, posted, waiting, unread, outcome>>
  BY DEF Client!clientVars
<1>2. OnceInv'
  BY <1>1 DEF ClientInv, OnceInv
<1>3. outcome # "ok" =>
        \A q \in Posts : q \in posted => q \in waiting \/ q \in unread \/ Failed(q)'
  BY DEF ClientInv, SettledInv, Failed
<1>4. SettledInv'
  BY <1>1, <1>3 DEF ClientInv, SettledInv
<1> QED  BY <1>2, <1>4 DEF ClientInv

LEMMA ServerReceivesKeeps ==
  ASSUME ClientInv, NEW p \in Posts, Client!ServerReceives(p) PROVE ClientInv'
<1>1. p \in posted /\ Client!Receive(p, Calls) /\ UNCHANGED Client!clientVars
  BY DEF Client!ServerReceives
<1>2. post[p] = "new" /\ CallsOf[p] = {p} /\ CallsOf[p] # {}
  BY <1>1, OneRequestPerPost DEF Client!Receive
<1>3. /\ post' = [post EXCEPT ![p] = "open"]
      /\ call' = [c \in Posts |-> IF c \in {p} THEN Client!Dispatched(c, Calls) ELSE call[c]]
  BY <1>1, <1>2, OneRequestPerPost DEF Client!Receive
<1>4. /\ DOMAIN post' = Posts /\ DOMAIN call' = Posts /\ post'[p] = "open"
      /\ \A q \in Posts : q # p => post'[q] = post[q] /\ call'[q] = call[q]
  BY <1>3 DEF ClientInv, SettledInv
<1> QED  BY <1>1, <1>2, <1>4, ServerMoves, Zenon DEF Failed

LEMMA ServerHandlesKeeps ==
  ASSUME ClientInv, NEW p \in Posts, Client!ServerHandles(p) PROVE ClientInv'
<1>1. PICK r \in {"ok", "failed"} : call' = [call EXCEPT ![p] = r]
  BY Zenon DEF Client!ServerHandles
<1>2. call[p] = "running" /\ post' = post /\ UNCHANGED Client!clientVars /\ p \in posted
  BY DEF Client!ServerHandles, ClientInv, SettledInv
<1>3. /\ DOMAIN post' = Posts /\ DOMAIN call' = Posts /\ call'[p] # "running"
      /\ \A q \in Posts : q # p => post'[q] = post[q] /\ call'[q] = call[q]
  BY <1>1, <1>2 DEF ClientInv, SettledInv
<1> QED  BY <1>2, <1>3, ServerMoves DEF Failed

LEMMA ServerAnswersKeeps ==
  ASSUME ClientInv, NEW p \in Posts, Client!ServerAnswers(p) PROVE ClientInv'
<1>1. /\ post[p] = "open" /\ call[p] # "running" /\ UNCHANGED Client!clientVars
      /\ post' = [post EXCEPT ![p] = "answered"] /\ call' = call
  BY OneRequestPerPost DEF Client!ServerAnswers, Client!Answer, Client!Running
<1>2. /\ DOMAIN post' = Posts /\ DOMAIN call' = Posts
      /\ \A q \in Posts : q # p => post'[q] = post[q] /\ call'[q] = call[q]
      /\ call[p] \in {"ok", "running"} => p \in posted
  BY <1>1 DEF ClientInv, SettledInv
<1> QED  BY <1>1, <1>2, ServerMoves DEF Failed

LEMMA ServerDropsKeeps ==
  ASSUME ClientInv, NEW p \in Posts, Client!ServerDrops(p) PROVE ClientInv'
<1>1. post[p] = "open" /\ Client!Dropped({p}) /\ UNCHANGED Client!clientVars
  BY DEF Client!ServerDrops
<1>2. \A q \in Posts : Client!PostOf(q) = q
  BY OneRequestPerPost, Zenon DEF Client!PostOf
<1>3. /\ post' = [q \in Posts |-> IF q = p /\ post[q] \in {"new", "open"} THEN "dropped" ELSE post[q]]
      /\ call' = [q \in Posts |-> IF q = p /\ call[q] = "running" THEN "cut" ELSE call[q]]
  BY <1>1, <1>2, OneRequestPerPost DEF Client!Dropped, Client!Running
<1>4. /\ DOMAIN post' = Posts /\ DOMAIN call' = Posts /\ call'[p] # "running"
      /\ \A q \in Posts : q # p => post'[q] = post[q] /\ call'[q] = call[q]
      /\ call'[p] \in {"ok", "running"} => p \in posted
  BY <1>3 DEF ClientInv, SettledInv
<1> QED  BY <1>1, <1>4, ServerMoves DEF Failed

LEMMA ClientInvIsKept == ClientInv /\ [Client!Next]_(Client!vars) => ClientInv'
<1>1. ASSUME ClientInv, UNCHANGED Client!vars PROVE ClientInv'
  <2>1. OnceInv'
    BY <1>1 DEF Client!vars, Client!clientVars, ClientInv, OnceInv
  <2>2. SettledInv'
    BY <1>1 DEF Client!vars, Client!clientVars, ClientInv, SettledInv, Failed
  <2> QED  BY <2>1, <2>2 DEF ClientInv
<1>2. ASSUME ClientInv, Client!Client PROVE ClientInv'
  BY <1>2, StartKeeps, TryKeeps, ResponseKeeps, NoResponseKeeps DEF Client!Client
<1>3. ASSUME ClientInv, Client!Server PROVE ClientInv'
  BY <1>3, ServerReceivesKeeps, ServerHandlesKeeps, ServerAnswersKeeps, ServerDropsKeeps
  DEF Client!Server
<1> QED  BY <1>1, <1>2, <1>3 DEF Client!Next

\* crates/client: one call posts its request at most once to each URL, whatever the retry
\* configuration, and whichever strategy, answers and timeouts it meets.
THEOREM PostedOncePerUrl == Spec => []AtMostOncePerUrl
<1>1. ASSUME OnceInv, NEW i \in DOMAIN conf.urls, NEW p \in Client!Contacted(conf.urls[i])
      PROVE  p = <<conf.urls[i], 1>>
  BY <1>1 DEF OnceInv, Client!Contacted, Client!FirstTries
<1>2. ClientInv => AtMostOncePerUrl
  BY <1>1, Zenon DEF ClientInv, AtMostOncePerUrl, Client!AtMostOncePerUrl
<1> QED  BY <1>2, PartsStart, ClientSteps, ClientInvInitially, ClientInvIsKept, PTL DEF Spec

\* crates/client: when a call has returned an error, no server has served it or is still
\* serving it, but for the POSTs that the client gave up on or whose answer it could not
\* decode.
THEOREM FailedCallsStayFailed == Spec => []FailedCallStaysFailed
<1>1. ASSUME ClientInv, outcome \in Client!Errors, NEW p \in Posts \ unread
      PROVE  call[p] \notin {"ok", "running"}
  <2>1. step = "done" /\ waiting = {} /\ outcome # "ok"
    BY <1>1 DEF ClientInv, SettledInv, Client!Errors
  <2> QED  BY <1>1, <2>1 DEF ClientInv, SettledInv, Failed
<1>2. ClientInv => FailedCallStaysFailed
  BY <1>1, Zenon DEF FailedCallStaysFailed, Client!FailedCallStaysFailed
<1> QED  BY <1>2, PartsStart, ClientSteps, ClientInvInitially, ClientInvIsKept, PTL DEF Spec

-----------------------------------------------------------------------------
(* The watcher. *)

Rx == [on : BOOLEAN, from : Int, pos : Int, got : Int, missed : Int, closed : BOOLEAN]

\* A receiver that has not subscribed has got and missed nothing, so that its count
\* starts where it subscribes.
RxInv ==
  /\ rx \in [Receivers -> Rx]
  /\ \A r \in Receivers :
       /\ rx[r].pos - rx[r].from = rx[r].got + rx[r].missed
       /\ ~rx[r].on /\ ~rx[r].closed => rx[r].got = 0 /\ rx[r].missed = 0

\* The log holds the items of the notifications with a payload, in their order.
Sent ==
  /\ {log[k] : k \in DOMAIN log} = Watcher!Items
  /\ \A k, l \in DOMAIN log : k < l => log[k].of < log[l].of

LogInv ==
  /\ received \in Seq(Notifications)
  /\ log \in Seq([of : Nat, payload : {n.payload : n \in Notifications}])
  /\ watch \in {"spawning", "watching", "stopped"} => Sent

WatcherInv == RxInv /\ LogInv

LEMMA WatcherInvInitially == Watcher!Init => WatcherInv
<1> SUFFICES ASSUME Watcher!Init PROVE WatcherInv
  OBVIOUS
<1>1. RxInv
  BY DEF Watcher!Init, Watcher!Unsubscribed, RxInv, Rx
<1>2. Sent
  BY DEF Watcher!Init, Sent, Watcher!Items
<1>3. LogInv
  BY <1>2 DEF Watcher!Init, LogInv
<1> QED  BY <1>1, <1>3 DEF WatcherInv

\* A notification without a payload changes nothing, and the item of one with a payload
\* goes behind those of all before it.
LEMMA ReceiveSends ==
  ASSUME LogInv, Sent, NEW n \in Notifications, received' = Append(received, n),
         \/ ~(n.frames >= 2) /\ log' = log
         \/ n.frames >= 2 /\ log' = Append(log, Watcher!Item(n))
  PROVE  LogInv'
<1> DEFINE L == Len(received)
           item == [of |-> L + 1, payload |-> n.payload]
<1>1. /\ L \in Nat /\ received' \in Seq(Notifications) /\ DOMAIN received' = DOMAIN received \cup {L + 1}
      /\ \A j \in DOMAIN received : received'[j] = received[j] /\ j \in 1..L
      /\ received'[L + 1] = n
  BY DEF LogInv
<1>2. CASE ~(n.frames >= 2) /\ log' = log
  <2>1. Watcher!Items' = Watcher!Items
    BY <1>1, <1>2 DEF Watcher!Items
  <2> QED  BY <1>1, <1>2, <2>1 DEF LogInv, Sent
<1>3. CASE n.frames >= 2 /\ log' = Append(log, Watcher!Item(n))
  <2>1. log' = Append(log, item)
    BY <1>3 DEF Watcher!Item
  <2>2. Watcher!Items' = Watcher!Items \cup {item}
    BY <1>1, <1>3 DEF Watcher!Items
  <2>3. item \in [of : Nat, payload : {m.payload : m \in Notifications}]
    BY <1>1
  <2>4. \A k \in DOMAIN log : log[k].of \in 1..L
    BY <1>1 DEF Sent, Watcher!Items
  <2>5. item.of = L + 1
    OBVIOUS
  <2> HIDE DEF item, L
  <2>6. /\ log' \in Seq([of : Nat, payload : {m.payload : m \in Notifications}])
        /\ Len(log) \in Nat /\ DOMAIN log = 1..Len(log)
        /\ DOMAIN log' = 1..(Len(log) + 1) /\ log'[Len(log) + 1] = item
        /\ \A k \in 1..Len(log) : log'[k] = log[k]
    BY <2>1, <2>3 DEF LogInv
  <2>7. {log'[k] : k \in DOMAIN log'} = {log[k] : k \in DOMAIN log} \cup {item}
    BY <2>6
  <2>8. ASSUME NEW k \in DOMAIN log', NEW l \in DOMAIN log', k < l PROVE log'[k].of < log'[l].of
    <3>1. k \in 1..Len(log) /\ log'[k] = log[k]
      BY <2>6, <2>8
    <3>2. CASE l \in 1..Len(log)
      BY <2>6, <2>8, <3>1, <3>2 DEF Sent
    <3>3. CASE l = Len(log) + 1
      BY <1>1, <2>4, <2>5, <2>6, <3>1, <3>3
    <3> QED  BY <2>6, <3>2, <3>3
  <2>9. Sent'
    BY <2>2, <2>7, <2>8, Zenon DEF Sent
  <2> QED  BY <1>1, <2>6, <2>9 DEF LogInv
<1> QED  BY <1>2, <1>3

LEMMA ReceiveKeeps ==
  ASSUME LogInv, NEW n \in Notifications, Watcher!Receive(n) PROVE LogInv'
<1>1. watch = "watching" /\ received' = Append(received, n) /\ Sent
  BY DEF Watcher!Receive, LogInv
<1>2. n.frames \in Nat
  BY WatcherConstants
<1>3. CASE n.frames < 2
  <2>1. log' = log /\ ~(n.frames >= 2)
    BY <1>2, <1>3 DEF Watcher!Receive, Watcher!process_message
  <2> QED  BY <1>1, <2>1, ReceiveSends
<1>4. CASE ~(n.frames < 2) /\ log' = Append(log, Watcher!Item(n))
  <2>1. n.frames >= 2
    BY <1>2, <1>4
  <2> QED  BY <1>1, <1>4, <2>1, ReceiveSends
<1>5. CASE watch' \in {"decodeError", "sendError"} /\ log' = log
  <2>1. received' \in Seq(Notifications)
    BY <1>1 DEF LogInv
  <2> QED  BY <1>5, <2>1 DEF LogInv
<1> QED  BY <1>3, <1>4, <1>5 DEF Watcher!Receive, Watcher!process_message

\* recv moves a receiver by what it got or by what it is told it missed.
LEMMA RecvKeeps == ASSUME RxInv, LogInv, NEW r \in Receivers, Watcher!Recv(r) PROVE RxInv'
<1> DEFINE oldest == IF Len(log) > Capacity THEN Len(log) - Capacity ELSE 0
<1>1. oldest \in Int
  BY WatcherConstants DEF LogInv
<1>2. rx[r] \in Rx /\ rx[r].on /\ \A q \in Receivers : rx[q] \in Rx
  BY DEF RxInv, Watcher!Recv
<1>3. \/ rx' = [rx EXCEPT ![r].pos = oldest, ![r].missed = @ + oldest - rx[r].pos]
      \/ rx' = [rx EXCEPT ![r].pos = @ + 1, ![r].got = @ + 1]
      \/ rx' = [rx EXCEPT ![r].on = FALSE, ![r].closed = TRUE]
  BY Zenon DEF Watcher!Recv
<1> HIDE DEF oldest
<1>4. /\ rx' \in [Receivers -> Rx]
      /\ \A q \in Receivers : q # r => rx'[q] = rx[q]
      /\ rx'[r].pos - rx'[r].from = rx'[r].got + rx'[r].missed
      /\ rx'[r].on \/ rx'[r].closed
  <2>1. CASE rx' = [rx EXCEPT ![r].pos = oldest, ![r].missed = @ + oldest - rx[r].pos]
    <3> DEFINE m == rx[r].missed + oldest - rx[r].pos
    <3>1. m \in Int
      BY <1>1, <1>2 DEF Rx
    <3>2. rx' = [rx EXCEPT ![r] = [rx[r] EXCEPT !.pos = oldest, !.missed = m]]
      BY <1>2, <2>1, Zenon DEF RxInv
    <3>3. \A i, j \in Int : [rx[r] EXCEPT !.pos = i, !.missed = j] \in Rx
      BY <1>2, Zenon DEF Rx
    <3>4. /\ rx' \in [Receivers -> Rx] /\ \A q \in Receivers : q # r => rx'[q] = rx[q]
          /\ rx'[r] = [rx[r] EXCEPT !.pos = oldest, !.missed = m]
      BY <1>1, <3>1, <3>2, <3>3, Zenon DEF RxInv
    <3>5. /\ rx'[r].pos = oldest /\ rx'[r].missed = m /\ rx'[r].from = rx[r].from
          /\ rx'[r].got = rx[r].got /\ rx'[r].on
      BY <1>2, <3>4 DEF Rx
    <3>6. rx[r].pos - rx[r].from = rx[r].got + rx[r].missed
      BY DEF RxInv
    <3> QED  BY <1>1, <1>2, <3>4, <3>5, <3>6 DEF Rx
  <2>2. CASE rx' = [rx EXCEPT ![r].pos = @ + 1, ![r].got = @ + 1]
    BY <1>2, <2>2 DEF RxInv, Rx
  <2>3. CASE rx' = [rx EXCEPT ![r].on = FALSE, ![r].closed = TRUE]
    BY <1>2, <2>3, Zenon DEF RxInv, Rx
  <2> QED  BY <1>3, <2>1, <2>2, <2>3, Zenon
<1> QED  BY <1>4 DEF RxInv

LEMMA SubscribeKeeps ==
  ASSUME RxInv, LogInv, NEW r \in Receivers, Watcher!Subscribe(r) PROVE RxInv'
<1>1. /\ rx' = [rx EXCEPT ![r].on = TRUE, ![r].from = Len(log), ![r].pos = Len(log)]
      /\ ~rx[r].on /\ ~rx[r].closed /\ rx[r] \in Rx
  BY DEF Watcher!Subscribe, RxInv
<1>2. Len(log) \in Int
  BY DEF LogInv
<1>3. rx[r].got = 0 /\ rx[r].missed = 0
  BY <1>1 DEF RxInv
<1>4. /\ rx' \in [Receivers -> Rx]
      /\ \A q \in Receivers : q # r => rx'[q] = rx[q]
      /\ rx'[r].pos - rx'[r].from = 0 /\ rx'[r].got = 0 /\ rx'[r].missed = 0
  <2>1. rx' = [rx EXCEPT ![r] = [rx[r] EXCEPT !.on = TRUE, !.from = Len(log), !.pos = Len(log)]]
    BY <1>1, Zenon DEF RxInv
  <2>2. \A i, j \in Int : [rx[r] EXCEPT !.on = TRUE, !.from = i, !.pos = j] \in Rx
    BY <1>1, Zenon DEF Rx
  <2>3. /\ rx' \in [Receivers -> Rx] /\ \A q \in Receivers : q # r => rx'[q] = rx[q]
        /\ rx'[r] = [rx[r] EXCEPT !.on = TRUE, !.from = Len(log), !.pos = Len(log)]
    BY <1>2, <2>1, <2>2, Zenon DEF RxInv
  <2> QED  BY <1>1, <1>2, <1>3, <2>3 DEF Rx
<1> QED  BY <1>4 DEF RxInv

LEMMA WatcherInvIsKept == WatcherInv /\ [Watcher!Next]_(Watcher!vars) => WatcherInv'
<1>1. ASSUME LogInv, UNCHANGED <<received, log>>, watch' = watch \/ watch = "spawning"
             \/ watch' \in {"socketError"} \/ watch = "watching"
      PROVE  LogInv'
  <2>1. Sent' <=> Sent
    BY <1>1 DEF Sent, Watcher!Items
  <2> QED  BY <1>1, <2>1 DEF LogInv
<1>2. ASSUME RxInv, rx' = rx PROVE RxInv'
  BY <1>2 DEF RxInv
<1> SUFFICES ASSUME WatcherInv, [Watcher!Next]_(Watcher!vars) PROVE WatcherInv'
  OBVIOUS
<1>3. CASE Watcher!Spawn \/ Watcher!SocketFails \/ Watcher!Stop \/ Watcher!Shutdown \/ Watcher!Join
  BY <1>1, <1>2, <1>3
  DEF WatcherInv, Watcher!Spawn, Watcher!SocketFails, Watcher!Stop, Watcher!Shutdown, Watcher!Join
<1>4. ASSUME NEW n \in Notifications, Watcher!Receive(n) PROVE WatcherInv'
  BY <1>2, <1>4, ReceiveKeeps DEF WatcherInv, Watcher!Receive
<1>5. ASSUME NEW r \in Receivers, Watcher!Subscribe(r) PROVE WatcherInv'
  BY <1>1, <1>5, SubscribeKeeps, Zenon DEF WatcherInv, Watcher!Subscribe
<1>6. ASSUME NEW r \in Receivers, Watcher!Recv(r) PROVE WatcherInv'
  BY <1>1, <1>6, RecvKeeps DEF WatcherInv, Watcher!Recv
<1>7. CASE UNCHANGED Watcher!vars
  BY <1>1, <1>2, <1>7 DEF WatcherInv, Watcher!vars
<1> QED  BY <1>3, <1>4, <1>5, <1>6, <1>7 DEF Watcher!Next

\* btc-watcher: while the watcher has not failed the channel was sent every notification
\* with a payload, in order, and a receiver got or was told of everything since it
\* subscribed, whatever the capacity of the channel.
THEOREM NeverASilentGap == Spec => []NoSilentGap
<1>1. WatcherInv => NoSilentGap
  BY Zenon DEF WatcherInv, RxInv, LogInv, Sent, NoSilentGap, Watcher!NoSilentGap
<1> QED  BY <1>1, PartsStart, WatcherSteps, WatcherInvInitially, WatcherInvIsKept, PTL DEF Spec
=============================================================================
