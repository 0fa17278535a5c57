------------------------------ MODULE Libraries ------------------------------
(***************************************************************************)
(* Parts that no binary of the repository puts to use yet, side by side:   *)
(* the JSON-RPC client, the heap of pending blocks, the watcher of Bitcoin *)
(* notifications and the proof store of the proof coordinator.  They share *)
(* no state.  A behaviour exercises one of them, its focus, or none (its   *)
(* focus is then a part that AllLibraries adds), and leaves the others in  *)
(* their first state, so that their state spaces add up.                   *)
(***************************************************************************)
EXTENDS Naturals, Sequences

CONSTANTS
  Posts, Calls, CallsOf, Method, Params, Handlers, Fallbacks, UrlLists, MaxRetries,
  Numbers, Hashes, ConsumerSets,
  ItemTypes, Notifications, Receivers, Capacity, MaxReceived,
  ProofBatches, ProverTypes, ProofIds, NoProof

\* A POST of the client carries one request, which is named like the POST.
ASSUME OneRequestPerPost == Calls = Posts /\ CallsOf = [p \in Posts |-> {p}]

\* The POSTs to a URL are told apart by their attempt, so no list names a URL twice.
ASSUME UrlsDiffer ==
  \A urls \in UrlLists :
    /\ urls \in Seq({urls[i] : i \in DOMAIN urls})
    /\ \A i, j \in DOMAIN urls : urls[i] = urls[j] => i = j

ASSUME WatcherConstants == Capacity \in Nat /\ \A n \in Notifications : n.frames \in Nat

ASSUME NoProofIsNone == NoProof \notin ProofIds

VARIABLES
  focus,
  post, call, conf, step, url, attempt, posted, waiting, unread, outcome,
  consumers, heap, keys, waiters, permit, at, op, returned,
  T, received, watch, log, rx, shutdown, handle,
  stored, request, response

Client  == INSTANCE RpcClient
Heap    == INSTANCE UniqueHeap
Watcher == INSTANCE BtcWatcher
Coordinator == INSTANCE ProofCoordinator

clientVars  == <<post, call, conf, step, url, attempt, posted, waiting, unread, outcome>>
heapVars    == <<consumers, heap, keys, waiters, permit, at, op, returned>>
watcherVars == <<T, received, watch, log, rx, shutdown, handle>>
proofVars   == <<stored, request, response>>
vars == <<focus, clientVars, heapVars, watcherVars, proofVars>>

Init ==
  /\ focus \in {"client", "heap", "watcher", "coordinator", "builder", "attribute"}
  /\ Client!Init
  /\ focus = "client" \/ conf = CHOOSE c \in [strategy : {"race"}, urls : UrlLists,
                                              max_retries : MaxRetries] : TRUE
  /\ Heap!Init
  /\ focus = "heap" \/ consumers = CHOOSE s \in ConsumerSets : TRUE
  /\ Watcher!Init
  /\ focus = "watcher" \/ T = CHOOSE t \in ItemTypes : TRUE
  /\ Coordinator!CoordinatorInit

ClientOnly ==
  focus = "client" /\ UNCHANGED <<focus, heapVars, watcherVars, proofVars>>
HeapOnly ==
  focus = "heap" /\ UNCHANGED <<focus, clientVars, watcherVars, proofVars>>
WatcherOnly ==
  focus = "watcher" /\ UNCHANGED <<focus, clientVars, heapVars, proofVars>>
CoordinatorOnly ==
  focus = "coordinator" /\ UNCHANGED <<focus, clientVars, heapVars, watcherVars>>

Next ==
  \/ ClientOnly /\ Client!Next
  \/ HeapOnly /\ Heap!Next
  \/ WatcherOnly /\ Watcher!Next
  \/ CoordinatorOnly /\ Coordinator!CoordinatorNext

\* The fairness of the heap, as its own module states it; no property of the other parts
\* needs any.
Fairness == \A c \in Heap!Everyone : WF_vars(HeapOnly /\ Heap!Run(c))

Spec == Init /\ [][Next]_vars /\ Fairness

-----------------------------------------------------------------------------
(* The properties of the parts. *)

\* RpcClient: one call never posts the same request twice to a URL.
AtMostOncePerUrl == Client!AtMostOncePerUrl

\* RpcClient: a call that failed without giving up on a server is served nowhere later.
FailedCallStaysFailed == Client!FailedCallStaysFailed

\* UniqueHeap implements BlockQueue: one block per number, lowest first.
IsBlockQueue == Heap!IsBlockQueue

\* UniqueHeap: a consumer that is alone is not left waiting beside a block.
LoneConsumerIsServed == Heap!LoneConsumerIsServed

\* BtcWatcher: no notification is skipped without the watcher or the receiver knowing.
NoSilentGap == Watcher!NoSilentGap

\* ProofCoordinator: an acknowledged proof is in the store, and the first one stays.
FirstProofStays == Coordinator!FirstProofStays

=============================================================================
