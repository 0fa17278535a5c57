--------------------------- MODULE ProofCoordinator ---------------------------
(***************************************************************************)
(* crates/proof-coordinator: the task that takes the proofs of batches     *)
(* into the rollup store, one proof for each batch and type of prover.     *)
(* Requests come one at a time, in any order and more than once (the       *)
(* contract of TaskRuntime); the store is asked and written in two awaits. *)
(***************************************************************************)
EXTENDS Naturals

CONSTANTS
  ProofBatches,   \* batch numbers
  ProverTypes,
  ProofIds,       \* proofs of the same batch and type differ
  NoProof

VARIABLES
  stored,     \* the proof of a batch and type in the rollup store
  request,    \* the request that is being handled or was handled last
  response    \* "none" until it is answered: "Ack", "ProofFailed" or "storeError"

coordinatorVars == <<stored, request, response>>

Requests ==
  [kind : {"ProcessBatch"}, batch : ProofBatches]
    \cup [kind : {"StoreProof"}, batch : ProofBatches, type : ProverTypes, proof : ProofIds \cup {"error"}]

CoordinatorTypeOK ==
  /\ stored \in [ProofBatches \X ProverTypes -> ProofIds \cup {NoProof}]
  /\ request \in Requests
  /\ response \in {"none", "Ack", "ProofFailed", "storeError"}

CoordinatorInit ==
  /\ stored = [k \in ProofBatches \X ProverTypes |-> NoProof]
  /\ request = [kind |-> "ProcessBatch", batch |-> CHOOSE b \in ProofBatches : TRUE]
  /\ response = "Ack"

\* Mutant: any proof of the batch is taken for this one.
get_proof_by_batch_and_type_AnyType(r) == \E t \in ProverTypes : stored[<<r.batch, t>>] # NoProof

get_proof_by_batch_and_type(r) == stored[<<r.batch, r.type>>] # NoProof

\* handle_request up to its first answer from the store.
handle_request(r) ==
  /\ response # "none"
  /\ request' = r
  /\ response' \in CASE r.kind = "ProcessBatch" -> {"Ack"}
                     [] r.kind = "StoreProof" /\ r.proof = "error" -> {"ProofFailed"}
                     [] OTHER -> {IF get_proof_by_batch_and_type(r) THEN "Ack" ELSE "none",
                                  "storeError"}
  /\ UNCHANGED stored

store_proof ==
  /\ response = "none"
  /\ \/ /\ stored' = [stored EXCEPT ![<<request.batch, request.type>>] = request.proof]
        /\ response' = "Ack"
     \/ /\ response' = "storeError"
        /\ UNCHANGED stored
  /\ UNCHANGED request

CoordinatorNext == store_proof \/ \E r \in Requests : handle_request(r)

\* A request that was acknowledged has left a proof of its batch and type in the store,
\* and the first one stays: a later proof of the same kind does not replace it.
FirstProofStays ==
  [][/\ response' = "Ack" /\ request'.kind = "StoreProof"
          => stored'[<<request'.batch, request'.type>>] # NoProof
     /\ \A k \in DOMAIN stored : stored[k] # NoProof => stored'[k] = stored[k]]_coordinatorVars
===============================================================================
