------------------------------- MODULE Prover -------------------------------
(***************************************************************************)
(* crates/prover: proof jobs are submitted over JSON-RPC, wait in a        *)
(* bounded channel, and are proved one at a time by the proof worker,      *)
(* which stores each result and publishes it once.                         *)
(*                                                                         *)
(* Handlers and the worker run in parallel and take one lock at a time, so *)
(* every access to a set of the JobStore is a step.  A block is a number   *)
(* that stands for its hash.                                               *)
(***************************************************************************)
EXTENDS RpcServer, Functions, TLC

CONSTANTS
  BlocksOf,       \* the blocks of the prover input of each sendProofInput request
  BatchOf,        \* its batch number
  Wanted,         \* the blocks that the job id of each getProof request was made from
  QueueCapacity,
  MayPanic        \* whether the proving library may panic

ASSUME ProverConstants == QueueCapacity \in Nat \ {0} /\ MayPanic \in BOOLEAN

VARIABLES
  pending, proofs,   \* the JobStore: ids waiting, and results by id
  queue,             \* the channel to the worker
  at,                \* the next step of the handler of each request
  worker,            \* the step of the proof worker
  job,               \* the record it works on
  result,            \* what proving it gave
  sent_ids,
  published,         \* the messages the publisher took, in order
  abandoned          \* history: ids inserted as pending whose record was never sent

storeVars == <<pending, proofs>>
workerVars == <<worker, job, result, sent_ids, published>>
vars == <<post, call, storeVars, queue, at, workerVars, abandoned>>

\* The block hashes, sorted, which the id of a job is the hash of.
SortedHashes(blocks) == SortSeq(blocks, LAMBDA a, b : a < b)

\* No request names a block twice; then a job id stands for a set of blocks.
ASSUME JobIdIsOfTheSet ==
  \A c, d \in {e \in Calls : Method[e].name = "sendProofInput"} :
    Range(SortedHashes(BlocksOf[c])) = Range(SortedHashes(BlocksOf[d]))
      => SortedHashes(BlocksOf[c]) = SortedHashes(BlocksOf[d])

Submissions == {c \in Calls : Method[c].name = "sendProofInput"}

\* calculate_job_id.
JobIdOf == [c \in Submissions |-> SortedHashes(BlocksOf[c])]
JobId(c) == JobIdOf[c]
JobIds == {JobId(c) : c \in Submissions}
Record(c) == [id |-> JobId(c), batch |-> BatchOf[c]]
Records == {Record(c) : c \in Submissions}
NoRecord == [id |-> <<>>, batch |-> 0]
Results == {"proof", "error"}
Response(r, res) == [id |-> r.id, batch |-> r.batch, result |-> res]

HandlerSteps == {"start", "checkProofs", "insert", "send", "done"}
WorkerSteps == {"recv", "prove", "unpend", "store", "dedup", "publish", "gone"}
Replies == {"accepted", "duplicate", "sendError", "noProof", "ids"} \cup Results

TypeOK ==
  /\ post \in [Posts -> {"new", "open", "answered", "rejected", "dropped"}]
  /\ call \in [Calls -> {"idle", "cut"} \cup Running \cup Refusals \cup Replies]
  /\ pending \subseteq JobIds
  /\ DOMAIN proofs \subseteq JobIds
  /\ \A id \in DOMAIN proofs : proofs[id] \in [id : {id}, batch : Nat, result : Results]
  /\ queue \in Seq(Records) /\ Len(queue) <= QueueCapacity
  /\ at \in [Calls -> HandlerSteps]
  /\ worker \in WorkerSteps
  /\ job \in Records \cup {NoRecord}
  /\ (worker \in {"recv", "gone"}) = (job = NoRecord)
  /\ result \in Results \cup {"none"}
  /\ sent_ids \subseteq JobIds
  /\ published \in Seq([id : JobIds, batch : Nat, result : Results])
  /\ abandoned \subseteq JobIds

Init ==
  /\ ServerInit
  /\ pending = {} /\ proofs = << >>
  /\ queue = <<>>
  /\ at = [c \in Calls |-> "start"]
  /\ worker = "recv" /\ job = NoRecord /\ result = "none"
  /\ sent_ids = {} /\ published = <<>>
  /\ abandoned = {}

-----------------------------------------------------------------------------
(* The handlers. *)

\* What the parameter type of each handler deserializes from.
Accepts(name, value) ==
  CASE name = "getPendingJobIds" -> value = <<"null">>
    [] name = "getProof"         -> value = <<"string">>
    [] name = "sendProofInput"   -> value \in {<<"object">>, <<"array", "proverData", "url">>}

\* The requests for a handler whose params it can parse.
Accepted ==
  {c \in Calls : Route(c) = "handler" /\ Accepts(Method[c].name, ParamsValue(Params[c]))}

ReceivePost(p) ==
  /\ Receive(p, Accepted)
  /\ UNCHANGED <<storeVars, queue, at, workerVars, abandoned>>

AnswerPost(p) ==
  /\ Answer(p)
  /\ UNCHANGED <<storeVars, queue, at, workerVars, abandoned>>

Handles(c, name) == call[c] = "running" /\ Method[c].name = name

Reply(c, r) ==
  /\ call' = [call EXCEPT ![c] = r]
  /\ at' = [at EXCEPT ![c] = "done"]
  /\ UNCHANGED post

Proceed(c, step) ==
  /\ at' = [at EXCEPT ![c] = step]
  /\ UNCHANGED <<post, call>>

\* already_requested, the first lock.
CheckPending(c) ==
  /\ Handles(c, "sendProofInput") /\ at[c] = "start"
  /\ IF JobId(c) \in pending THEN Reply(c, "duplicate") ELSE Proceed(c, "checkProofs")
  /\ UNCHANGED <<storeVars, queue, workerVars, abandoned>>

\* Mutant: only the pending ids are looked at.
CheckProofs_Skipped(c) ==
  /\ Handles(c, "sendProofInput") /\ at[c] = "checkProofs"
  /\ Proceed(c, "insert")
  /\ UNCHANGED <<storeVars, queue, workerVars, abandoned>>

\* already_requested, the second lock.
CheckProofs(c) ==
  /\ Handles(c, "sendProofInput") /\ at[c] = "checkProofs"
  /\ IF JobId(c) \in DOMAIN proofs THEN Reply(c, "duplicate") ELSE Proceed(c, "insert")
  /\ UNCHANGED <<storeVars, queue, workerVars, abandoned>>

\* Mutant: the record is sent without the id being made pending.
InsertJob_NotPending(c) ==
  /\ Handles(c, "sendProofInput") /\ at[c] = "insert"
  /\ Proceed(c, "send")
  /\ UNCHANGED <<storeVars, queue, workerVars, abandoned>>

\* insert_job.
InsertJob(c) ==
  /\ Handles(c, "sendProofInput") /\ at[c] = "insert"
  /\ pending' = pending \cup {JobId(c)}
  /\ Proceed(c, "send")
  /\ UNCHANGED <<proofs, queue, workerVars, abandoned>>

\* Mutant: a full channel drops the record (try_send with its result ignored).
SendJob_TrySend(c) ==
  /\ Handles(c, "sendProofInput") /\ at[c] = "send"
  /\ Reply(c, "accepted")
  /\ IF Len(queue) < QueueCapacity
     THEN queue' = Append(queue, Record(c)) /\ UNCHANGED abandoned
     ELSE abandoned' = abandoned \cup {JobId(c)} /\ UNCHANGED queue
  /\ UNCHANGED <<storeVars, workerVars>>

\* sender.send: waits for a free place; fails when the worker has dropped the receiver.
SendJob(c) ==
  /\ Handles(c, "sendProofInput") /\ at[c] = "send"
  /\ \/ /\ worker /= "gone" /\ Len(queue) < QueueCapacity
        /\ queue' = Append(queue, Record(c))
        /\ Reply(c, "accepted")
        /\ UNCHANGED abandoned
     \/ /\ worker = "gone"
        /\ Reply(c, "sendError")
        /\ abandoned' = abandoned \cup {JobId(c)}
        /\ UNCHANGED queue
  /\ UNCHANGED <<storeVars, workerVars>>

GetPendingJobIds(c) ==
  /\ Handles(c, "getPendingJobIds")
  /\ Reply(c, "ids")
  /\ UNCHANGED <<storeVars, queue, workerVars, abandoned>>

GetProof(c) ==
  /\ Handles(c, "getProof")
  /\ LET id == SortedHashes(Wanted[c])
     IN Reply(c, IF id \in DOMAIN proofs THEN proofs[id].result ELSE "noProof")
  /\ UNCHANGED <<storeVars, queue, workerVars, abandoned>>

\* The peers of the POSTs in P close their connections, or the server ends.  A handler
\* that has inserted its id and waits for a place in the channel leaves the id behind.
DropPosts(P) ==
  /\ \E p \in P : post[p] = "open"
  /\ Dropped(P)
  /\ abandoned' = abandoned \cup
       {JobId(c) : c \in {d \in Submissions : /\ PostOf(d) \in P /\ post[PostOf(d)] = "open"
                                              /\ call[d] = "running" /\ at[d] = "send"}}
  /\ UNCHANGED <<storeVars, queue, at, workerVars>>

-----------------------------------------------------------------------------
(* spawn_proof_worker: one iteration of the loop. *)

Recv ==
  /\ worker = "recv" /\ queue /= <<>>
  /\ job' = Head(queue) /\ queue' = Tail(queue)
  /\ worker' = "prove"
  /\ UNCHANGED <<post, call, storeVars, at, result, sent_ids, published, abandoned>>

\* prove and to_batch_proof; an error is a result too.
Prove ==
  /\ worker = "prove"
  /\ result' \in Results
  /\ worker' = "unpend"
  /\ UNCHANGED <<post, call, storeVars, queue, at, job, sent_ids, published, abandoned>>

\* A panic ends the worker's task; the receiver is dropped with what it holds.
ProvePanics ==
  /\ MayPanic /\ worker = "prove"
  /\ worker' = "gone" /\ job' = NoRecord /\ queue' = <<>>
  /\ UNCHANGED <<post, call, storeVars, at, result, sent_ids, published, abandoned>>

\* Mutant: the id stays pending when its proof is stored.
RemovePending_Kept ==
  /\ worker = "unpend"
  /\ worker' = "store"
  /\ UNCHANGED <<post, call, storeVars, queue, at, job, result, sent_ids, published, abandoned>>

\* upsert_proof, the first lock.
RemovePending ==
  /\ worker = "unpend"
  /\ pending' = pending \ {job.id}
  /\ worker' = "store"
  /\ UNCHANGED <<post, call, proofs, queue, at, job, result, sent_ids, published, abandoned>>

\* upsert_proof, the second lock.
InsertProof ==
  /\ worker = "store"
  /\ proofs' = [id \in DOMAIN proofs \cup {job.id} |->
                  IF id = job.id THEN Response(job, result) ELSE proofs[id]]
  /\ worker' = "dedup"
  /\ UNCHANGED <<post, call, pending, queue, at, job, result, sent_ids, published, abandoned>>

Idle == worker' = "recv" /\ job' = NoRecord /\ result' = "none"

\* Mutant: the ids already sent are not consulted.
Dedup_Always ==
  /\ worker = "dedup"
  /\ sent_ids' = sent_ids \cup {job.id}
  /\ worker' = "publish"
  /\ UNCHANGED <<post, call, storeVars, queue, at, job, result, published, abandoned>>

\* The sent_ids block, and the serialization of the envelope, which may fail.
Dedup ==
  /\ worker = "dedup"
  /\ IF job.id \in sent_ids
     THEN Idle /\ UNCHANGED sent_ids
     ELSE /\ sent_ids' = sent_ids \cup {job.id}
          /\ \/ worker' = "publish" /\ UNCHANGED <<job, result>>
             \/ Idle
  /\ UNCHANGED <<post, call, storeVars, queue, at, published, abandoned>>

\* publisher.publish: a failure is logged and not retried.
Publish ==
  /\ worker = "publish"
  /\ \/ published' = Append(published, Response(job, result))
     \/ UNCHANGED published
  /\ Idle
  /\ UNCHANGED <<post, call, storeVars, queue, at, sent_ids, abandoned>>

-----------------------------------------------------------------------------
Handler(c) ==
  \/ CheckPending(c) \/ CheckProofs(c) \/ InsertJob(c) \/ SendJob(c)
  \/ GetPendingJobIds(c) \/ GetProof(c)

Worker == Recv \/ Prove \/ RemovePending \/ InsertProof \/ Dedup \/ Publish

\* start_api: once the worker is gone the server is dropped and the process ends.
ServerEnds == worker = "gone" /\ DropPosts(Posts)

Next ==
  \/ \E p \in Posts : ReceivePost(p) \/ AnswerPost(p) \/ DropPosts({p})
  \/ \E c \in Calls : Handler(c)
  \/ Worker \/ ProvePanics
  \/ ServerEnds

\* The runtime keeps polling the worker while it can go on.
Spec == Init /\ [][Next]_vars /\ WF_vars(Worker)

-----------------------------------------------------------------------------
(* Properties. *)

\* The proof of a set of blocks is published at most once, although two submissions of
\* the same blocks, in whatever order, may both pass already_requested and be proved.
PublishedOnce ==
  \A i, j \in DOMAIN published :
    Range(published[i].id) = Range(published[j].id) => i = j

InStore(id) == id \in pending \cup DOMAIN proofs

\* A job whose submission was answered with its id can be found by getPendingJobIds or
\* getProof, except in the window between the two locks of upsert_proof.
AcceptedIsVisible ==
  \A c \in Submissions : call[c] = "accepted" =>
    InStore(JobId(c)) \/ (worker = "store" /\ job.id = JobId(c))

\* An id that is pending has its record in the channel, with the worker, or in the hands
\* of the handler that inserted it, unless the worker is gone or the id was left behind
\* by a handler that was dropped, or failed, while sending: enqueue_proof_input does not
\* take back what insert_job did.
PendingHasRecord ==
  \A id \in pending :
    \/ \E i \in DOMAIN queue : queue[i].id = id
    \/ worker \in {"prove", "unpend"} /\ job.id = id
    \/ \E c \in Submissions : call[c] = "running" /\ at[c] = "send" /\ JobId(c) = id
    \/ worker = "gone" \/ id \in abandoned

\* An answered POST has the response of each of its requests, and no handler runs for a
\* POST that is closed.
AnswersAreComplete ==
  \A p \in Posts : \A c \in CallsOf[p] :
    /\ post[p] = "answered" => call[c] \in Refusals \cup Replies
    /\ call[c] = "running" => post[p] = "open"

\* A submission that begins when the proof of its blocks is stored is never accepted:
\* already_requested finds the proof whatever the worker does in between.
LateDuplicateIsRefused ==
  \A c \in Submissions :
    [](at[c] = "start" /\ JobId(c) \in DOMAIN proofs => [](call[c] /= "accepted"))

\* Every accepted job is proved, or found not provable, and its result can be fetched,
\* unless the worker panics.
AcceptedIsProved ==
  \A c \in Submissions :
    call[c] = "accepted" ~> JobId(c) \in DOMAIN proofs \/ worker = "gone"

=============================================================================
