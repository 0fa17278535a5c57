----------------------------- MODULE ProverProofs -----------------------------
(***************************************************************************)
(* Proofs about the prover, for any POSTs, requests and blocks, and any    *)
(* capacity of the channel, whether the proving library may panic or not.  *)
(***************************************************************************)
EXTENDS Prover, SequenceTheorems, TLAPS

PostStates == {"new", "open", "answered", "rejected", "dropped"}
CallStates == {"idle", "cut"} \cup Running \cup Refusals \cup Replies

-----------------------------------------------------------------------------
(* The server and the handlers. *)

\* The inductive invariant of the server: a running handler has an open POST, and a POST
\* that is open has dispatched all of its requests.
ServerInv ==
  /\ post \in [Posts -> PostStates]
  /\ call \in [Calls -> CallStates]
  /\ at \in [Calls -> HandlerSteps]
  /\ \A id \in DOMAIN proofs : proofs[id].result \in Results
  /\ worker \in {"unpend", "store", "dedup", "publish"} => result \in Results
  /\ \A c \in Calls : call[c] = "running" => post[PostOf(c)] = "open"
  /\ \A c \in Calls : post[PostOf(c)] \in {"open", "answered"} => call[c] \notin {"idle", "cut"}
  /\ \A c \in Calls : post[PostOf(c)] = "answered" => call[c] # "running"

LEMMA PostOfIsThePost ==
  /\ \A c \in Calls : PostOf(c) \in Posts /\ c \in CallsOf[PostOf(c)]
  /\ \A p \in Posts, c \in Calls : c \in CallsOf[p] => PostOf(c) = p
<1>1. ASSUME NEW c \in Calls PROVE PostOf(c) \in Posts /\ c \in CallsOf[PostOf(c)]
  BY RequestsBelongToPosts, Zenon DEF PostOf
<1>2. ASSUME NEW p \in Posts, NEW c \in Calls, c \in CallsOf[p] PROVE PostOf(c) = p
  BY <1>1, <1>2, RequestsBelongToPosts
<1> QED  BY <1>1, <1>2

LEMMA ServerInvInitially == Init => ServerInv
BY PostOfIsThePost DEF Init, ServerInit, ServerInv, PostStates, CallStates, HandlerSteps, Results

\* The steps that the handler of c takes.
LEMMA HandlerStep ==
  ASSUME ServerInv, NEW c \in Calls, Handler(c)
  PROVE  /\ call[c] = "running" /\ post' = post
         /\ \/ at' = [at EXCEPT ![c] = "done"] /\ \E r \in Replies : call' = [call EXCEPT ![c] = r]
            \/ call' = call /\ \E s \in HandlerSteps : at' = [at EXCEPT ![c] = s]
         /\ UNCHANGED <<proofs, workerVars>>
<1> USE DEF Handles, Reply, Proceed, HandlerSteps, Replies, storeVars, workerVars
<1>1. CASE CheckPending(c)  BY <1>1 DEF CheckPending
<1>2. CASE CheckProofs(c)  BY <1>2 DEF CheckProofs
<1>3. CASE InsertJob(c)  BY <1>3 DEF InsertJob
<1>4. CASE SendJob(c)  BY <1>4 DEF SendJob
<1>5. CASE GetPendingJobIds(c)  BY <1>5, Zenon DEF GetPendingJobIds
<1>6. CASE GetProof(c)  BY <1>6, Zenon DEF GetProof, ServerInv
<1> QED  BY <1>1, <1>2, <1>3, <1>4, <1>5, <1>6 DEF Handler

LEMMA WorkerStep ==
  ASSUME ServerInv, Worker \/ ProvePanics
  PROVE  /\ UNCHANGED <<post, call, at>>
         /\ \A id \in DOMAIN proofs' : proofs'[id].result \in Results
         /\ worker' \in {"unpend", "store", "dedup", "publish"} => result' \in Results
<1>1. CASE InsertProof
  BY <1>1 DEF InsertProof, ServerInv, Response
<1>2. CASE Recv  BY <1>2 DEF Recv, ServerInv, storeVars
<1>3. CASE Prove  BY <1>3 DEF Prove, ServerInv, storeVars
<1>4. CASE RemovePending  BY <1>4 DEF RemovePending, ServerInv
<1>5. CASE Dedup  BY <1>5 DEF Dedup, Idle, ServerInv, storeVars
<1>6. CASE Publish  BY <1>6 DEF Publish, Idle, ServerInv, storeVars
<1>7. CASE ProvePanics  BY <1>7 DEF ProvePanics, ServerInv, storeVars
<1> QED  BY <1>1, <1>2, <1>3, <1>4, <1>5, <1>6, <1>7 DEF Worker

LEMMA ReceiveKeepsServer ==
  ASSUME ServerInv, NEW p \in Posts, ReceivePost(p) PROVE ServerInv'
<1>1. /\ post[p] = "new"
      /\ UNCHANGED <<proofs, worker, result, at>>
  BY DEF ReceivePost, Receive, storeVars, workerVars
<1>2. \A c \in Calls : Dispatched(c, Accepted) \in {"methodNotFound", "badParams", "running"}
  BY DEF Dispatched
<1>3. CASE CallsOf[p] = {}
  <2>1. post' = [post EXCEPT ![p] = "rejected"] /\ call' = call
    BY <1>3 DEF ReceivePost, Receive
  <2>2. \A c \in Calls : PostOf(c) # p
    BY <1>3, PostOfIsThePost
  <2> QED  BY <1>1, <2>1, <2>2, PostOfIsThePost DEF ServerInv, PostStates
<1>4. CASE CallsOf[p] # {}
  <2>1. /\ post' = [post EXCEPT ![p] = "open"]
        /\ call' = [c \in Calls |-> IF c \in CallsOf[p] THEN Dispatched(c, Accepted) ELSE call[c]]
    BY <1>4 DEF ReceivePost, Receive
  <2>2. call' \in [Calls -> CallStates]
    BY <1>2, <2>1 DEF ServerInv, CallStates, Running, Refusals
  <2>3. \A c \in Calls : IF PostOf(c) = p THEN post'[PostOf(c)] = "open" /\ call'[c] \notin {"idle", "cut"}
                                          ELSE post'[PostOf(c)] = post[PostOf(c)] /\ call'[c] = call[c]
    BY <1>2, <2>1, PostOfIsThePost DEF ServerInv
  <2> QED  BY <1>1, <2>1, <2>2, <2>3 DEF ServerInv, PostStates
<1> QED  BY <1>3, <1>4

LEMMA AnswerKeepsServer ==
  ASSUME ServerInv, NEW p \in Posts, AnswerPost(p) PROVE ServerInv'
<1>1. /\ post[p] = "open" /\ post' = [post EXCEPT ![p] = "answered"]
      /\ UNCHANGED <<call, proofs, worker, result, at>>
      /\ \A c \in CallsOf[p] : call[c] # "running"
  BY DEF AnswerPost, Answer, Running, storeVars, workerVars
<1>2. \A c \in Calls : IF PostOf(c) = p THEN call[c] # "running" /\ call[c] \notin {"idle", "cut"}
                                        ELSE post'[PostOf(c)] = post[PostOf(c)]
  BY <1>1, PostOfIsThePost DEF ServerInv
<1> QED  BY <1>1, <1>2 DEF ServerInv, PostStates

LEMMA DropKeepsServer ==
  ASSUME ServerInv, NEW P \in SUBSET Posts, DropPosts(P) PROVE ServerInv'
<1>1. /\ post' = [p \in Posts |-> IF p \in P /\ post[p] \in {"new", "open"} THEN "dropped" ELSE post[p]]
      /\ call' = [c \in Calls |-> IF PostOf(c) \in P /\ call[c] \in Running THEN "cut" ELSE call[c]]
      /\ UNCHANGED <<proofs, worker, result, at>>
  BY DEF DropPosts, Dropped, storeVars, workerVars
<1>2. post' \in [Posts -> PostStates] /\ call' \in [Calls -> CallStates]
  BY <1>1 DEF ServerInv, PostStates, CallStates
<1>3. \A c \in Calls : call'[c] # call[c] => call'[c] = "cut" /\ post'[PostOf(c)] = "dropped"
  BY <1>1, PostOfIsThePost DEF ServerInv, Running
<1>4. \A c \in Calls : post'[PostOf(c)] # post[PostOf(c)] => post'[PostOf(c)] = "dropped" /\ call'[c] # "running"
  BY <1>1, PostOfIsThePost DEF ServerInv, Running
<1>5. \A c \in Calls :
        /\ call'[c] = "running" => post'[PostOf(c)] = "open"
        /\ post'[PostOf(c)] \in {"open", "answered"} => call'[c] \notin {"idle", "cut"}
        /\ post'[PostOf(c)] = "answered" => call'[c] # "running"
  BY <1>3, <1>4 DEF ServerInv
<1> QED  BY <1>1, <1>2, <1>5, Zenon DEF ServerInv

LEMMA ServerInvIsKept == ServerInv /\ [Next]_vars => ServerInv'
<1> SUFFICES ASSUME ServerInv, [Next]_vars PROVE ServerInv'
  OBVIOUS
<1>1. ASSUME NEW c \in Calls, Handler(c) PROVE ServerInv'
  <2>1. Replies \subseteq CallStates \ {"idle", "cut", "running"}
    BY DEF Replies, CallStates, Results
  <2>2. /\ call[c] = "running" /\ UNCHANGED <<post, proofs, worker, result>>
        /\ \A d \in Calls : d # c => call'[d] = call[d]
        /\ call'[c] \in CallStates \ {"idle", "cut"}
    BY <1>1, <2>1, HandlerStep DEF ServerInv, workerVars, CallStates, Running
  <2>3. call' \in [Calls -> CallStates] /\ at' \in [Calls -> HandlerSteps]
    BY <1>1, <2>1, HandlerStep DEF ServerInv, HandlerSteps
  <2> QED  BY <2>2, <2>3 DEF ServerInv
<1>2. CASE Worker \/ ProvePanics
  BY <1>2, WorkerStep DEF ServerInv
<1>3. CASE ServerEnds
  BY <1>3, DropKeepsServer DEF ServerEnds
<1>4. ASSUME NEW p \in Posts, DropPosts({p}) PROVE ServerInv'
  BY <1>4, DropKeepsServer
<1>5. CASE UNCHANGED vars
  BY <1>5 DEF vars, ServerInv, storeVars, workerVars
<1> QED  BY <1>1, <1>2, <1>3, <1>4, <1>5, ReceiveKeepsServer, AnswerKeepsServer, Zenon DEF Next

\* crates/rpc: the answer of a POST has the response of each of its requests, and a POST
\* that is closed has no handler left running.
THEOREM AnswersStayComplete == Spec => []AnswersAreComplete
<1>1. ServerInv => AnswersAreComplete
  BY PostOfIsThePost, RequestsBelongToPosts
  DEF ServerInv, AnswersAreComplete, CallStates, Running
<1> QED  BY ServerInvInitially, ServerInvIsKept, <1>1, PTL DEF Spec

-----------------------------------------------------------------------------
(* Where an accepted job is seen. *)

Visible(id) == InStore(id) \/ (worker = "store" /\ job.id = id)

\* A job is visible from insert_job on.
VisibleInv ==
  \A c \in Submissions : at[c] = "send" \/ call[c] = "accepted" => Visible(JobId(c))

\* Proofs are never removed, and upsert_proof takes the id from one set to the other.
LEMMA VisibleStays ==
  ASSUME [Next]_vars, NEW id, Visible(id) PROVE Visible(id)'
<1> USE DEF Visible, InStore, storeVars, workerVars
<1>1. CASE UNCHANGED <<storeVars, worker, job>>  BY <1>1
<1>2. ASSUME NEW c \in Calls, InsertJob(c) PROVE Visible(id)'
  BY <1>2 DEF InsertJob
<1>3. ASSUME NEW c \in Calls, Handler(c), ~InsertJob(c) PROVE UNCHANGED <<storeVars, worker, job>>
  BY <1>3 DEF Handler, CheckPending, CheckProofs, SendJob, GetPendingJobIds, GetProof
<1>4. CASE RemovePending  BY <1>4 DEF RemovePending
<1>5. CASE InsertProof  BY <1>5 DEF InsertProof
<1>6. CASE Recv \/ Prove \/ Dedup \/ Publish \/ ProvePanics
  BY <1>6 DEF Recv, Prove, Dedup, Publish, Idle, ProvePanics
<1>7. ASSUME NEW P, DropPosts(P) PROVE UNCHANGED <<storeVars, worker, job>>
  BY <1>7 DEF DropPosts
<1>8. ASSUME NEW p, ReceivePost(p) \/ AnswerPost(p) PROVE UNCHANGED <<storeVars, worker, job>>
  BY <1>8 DEF ReceivePost, AnswerPost
<1>9. CASE UNCHANGED vars  BY <1>9, <1>1 DEF vars
<1> QED  BY <1>1, <1>2, <1>3, <1>4, <1>5, <1>6, <1>7, <1>8, <1>9, Zenon DEF Next, Worker, ServerEnds

\* Whoever comes to hold an id, or to be told of it, inserted it.
LEMMA VisibleInvIsKept == ServerInv /\ VisibleInv /\ [Next]_vars => VisibleInv'
<1> SUFFICES ASSUME ServerInv, VisibleInv, [Next]_vars, NEW c \in Submissions,
                    at'[c] = "send" \/ call'[c] = "accepted"
             PROVE  Visible(JobId(c))'
  BY DEF VisibleInv
<1>0. c \in Calls /\ JobId(c)' = JobId(c)
  BY DEF Submissions, JobId, JobIdOf
<1>1. SUFFICES Visible(JobId(c)) \/ InsertJob(c)
  <2>1. CASE Visible(JobId(c))
    BY <2>1, <1>0, VisibleStays
  <2>2. CASE InsertJob(c)
    BY <2>2, <1>0 DEF InsertJob, Visible, InStore
  <2> QED  BY <1>1, <2>1, <2>2
<1>2. CASE at[c] = "send" \/ call[c] = "accepted"
  BY <1>2 DEF VisibleInv
<1>3. CASE at[c] # "send" /\ call[c] # "accepted"
  <2>1. ASSUME NEW d \in Calls, Handler(d) PROVE InsertJob(c)
    <3>1. d = c
      BY <1>0, <1>3, <2>1, HandlerStep DEF ServerInv
    <3>2. CASE CheckPending(c) \/ CheckProofs(c)
      BY <1>0, <1>3, <3>2 DEF CheckPending, CheckProofs, Reply, Proceed, ServerInv
    <3>3. CASE SendJob(c)
      BY <1>3, <3>3 DEF SendJob
    <3>4. CASE GetPendingJobIds(c)
      BY <1>0, <1>3, <3>4 DEF GetPendingJobIds, Reply, ServerInv
    <3>5. CASE GetProof(c)
      BY <1>0, <1>3, <3>5 DEF GetProof, Reply, ServerInv, Results
    <3> QED  BY <2>1, <3>1, <3>2, <3>3, <3>4, <3>5 DEF Handler
  <2>2. ASSUME Worker \/ ProvePanics \/ UNCHANGED vars PROVE FALSE
    BY <1>3, <2>2, WorkerStep DEF vars
  <2>3. ASSUME NEW P, DropPosts(P) PROVE FALSE
    BY <1>0, <1>3, <2>3 DEF DropPosts, Dropped
  <2>4. ASSUME NEW p \in Posts, ReceivePost(p) PROVE FALSE
    <3>1. Dispatched(c, Accepted) # "accepted"
      BY DEF Dispatched
    <3> QED  BY <1>0, <1>3, <2>4, <3>1 DEF ReceivePost, Receive
  <2>5. ASSUME NEW p \in Posts, AnswerPost(p) PROVE FALSE
    BY <1>3, <2>5 DEF AnswerPost, Answer
  <2> QED  BY <2>1, <2>2, <2>3, <2>4, <2>5, Zenon DEF Next, ServerEnds
<1> QED  BY <1>2, <1>3

\* crates/prover: a job whose submission was answered with its id is in the store, or
\* between the two locks of upsert_proof.
THEOREM AcceptedStaysVisible == Spec => []AcceptedIsVisible
<1>1. Init => VisibleInv
  BY DEF Init, ServerInit, VisibleInv, Submissions
<1>2. VisibleInv => AcceptedIsVisible
  BY DEF VisibleInv, AcceptedIsVisible, Visible
<1> QED  BY ServerInvInitially, ServerInvIsKept, VisibleInvIsKept, <1>1, <1>2, PTL DEF Spec

-----------------------------------------------------------------------------
(* Where the record of a pending job is. *)

LEMMA InAppend ==
  ASSUME NEW S, NEW s \in Seq(S), NEW e \in S
  PROVE  /\ Append(s, e) \in Seq(S)
         /\ \A i \in DOMAIN s : i \in DOMAIN Append(s, e) /\ Append(s, e)[i] = s[i]
         /\ \E j \in DOMAIN Append(s, e) : Append(s, e)[j] = e
<1>1. /\ Len(s) \in Nat /\ DOMAIN s = 1..Len(s)
      /\ Append(s, e) \in Seq(S)
      /\ DOMAIN Append(s, e) = 1..(Len(s) + 1)
      /\ \A i \in 1..Len(s) : Append(s, e)[i] = s[i]
      /\ Append(s, e)[Len(s) + 1] = e
  BY AppendProperties, LenProperties
<1> QED  BY <1>1

LEMMA InTail ==
  ASSUME NEW S, NEW s \in Seq(S), s # <<>>
  PROVE  /\ Head(s) \in S /\ Tail(s) \in Seq(S)
         /\ \A i \in DOMAIN s : s[i] = Head(s) \/ \E j \in DOMAIN Tail(s) : Tail(s)[j] = s[i]
<1>1. /\ Len(s) \in Nat \ {0} /\ DOMAIN s = 1..Len(s)
      /\ Head(s) \in S /\ Head(s) = s[1]
      /\ Tail(s) \in Seq(S) /\ DOMAIN Tail(s) = 1..(Len(s) - 1)
      /\ \A j \in 1..(Len(s) - 1) : Tail(s)[j] = s[j + 1]
  BY HeadTailProperties, LenProperties, EmptySeq
<1>2. ASSUME NEW i \in DOMAIN s, i # 1 PROVE \E j \in DOMAIN Tail(s) : Tail(s)[j] = s[i]
  <2>1. i - 1 \in DOMAIN Tail(s) /\ Tail(s)[i - 1] = s[i]
    BY <1>1, <1>2
  <2> QED  BY <2>1
<1> QED  BY <1>1, <1>2

InQueue(id) == \E i \in DOMAIN queue : queue[i].id = id
AtWorker(id) == worker \in {"prove", "unpend"} /\ job.id = id
AtHandler(id) == \E c \in Submissions : call[c] = "running" /\ at[c] = "send" /\ JobId(c) = id
Located(id) == InQueue(id) \/ AtWorker(id) \/ AtHandler(id) \/ worker = "gone" \/ id \in abandoned

QueueInv == queue \in Seq(Records)

LEMMA QueueInvIsKept == QueueInv /\ [Next]_vars => QueueInv'
<1> SUFFICES ASSUME QueueInv, [Next]_vars PROVE QueueInv'
  OBVIOUS
<1>1. ASSUME NEW c \in Calls, SendJob(c) PROVE QueueInv'
  <2>1. Record(c) \in Records
    BY <1>1 DEF SendJob, Handles, Records, Submissions
  <2> QED  BY <1>1, <2>1, InAppend DEF SendJob, QueueInv
<1>2. CASE Recv
  BY <1>2, InTail DEF Recv, QueueInv
<1>3. CASE ProvePanics
  BY <1>3 DEF ProvePanics, QueueInv
<1>4. ASSUME queue' = queue PROVE QueueInv'
  BY <1>4 DEF QueueInv
<1>5. ASSUME NEW c \in Calls, Handler(c), ~SendJob(c) PROVE queue' = queue
  BY <1>5 DEF Handler, CheckPending, CheckProofs, InsertJob, GetPendingJobIds, GetProof
<1>6. ASSUME Worker, ~Recv PROVE queue' = queue
  BY <1>6 DEF Worker, Prove, RemovePending, InsertProof, Dedup, Publish
<1>7. ASSUME NEW P, DropPosts(P) PROVE queue' = queue
  BY <1>7 DEF DropPosts
<1>8. ASSUME NEW p, ReceivePost(p) \/ AnswerPost(p) PROVE queue' = queue
  BY <1>8 DEF ReceivePost, AnswerPost
<1>9. CASE UNCHANGED vars  BY <1>9, <1>4 DEF vars
<1> QED  BY <1>1, <1>2, <1>3, <1>4, <1>5, <1>6, <1>7, <1>8, <1>9, Zenon DEF Next, ServerEnds

\* A handler that sends goes on sending until it is dropped.
LEMMA AtHandlerStays ==
  ASSUME ServerInv, [Next]_vars, NEW id, AtHandler(id)
  PROVE  \/ AtHandler(id)' \/ id \in abandoned'
         \/ \E c \in Submissions : at[c] = "send" /\ at'[c] = "done"
<1>1. PICK c \in Submissions : call[c] = "running" /\ at[c] = "send" /\ JobId(c) = id
  BY DEF AtHandler
<1>2. c \in Calls /\ JobId(c)' = JobId(c) /\ post[PostOf(c)] = "open"
  BY <1>1 DEF Submissions, JobId, JobIdOf, ServerInv
<1>3. ASSUME call'[c] = "running", at'[c] = "send" PROVE AtHandler(id)'
  BY <1>1, <1>2, <1>3 DEF AtHandler
<1>4. ASSUME NEW d \in Calls, Handler(d), d # c PROVE call'[c] = "running" /\ at'[c] = "send"
  BY <1>1, <1>2, <1>4, HandlerStep DEF ServerInv
<1>5. ASSUME Handler(c) PROVE at'[c] = "done"
  <2>1. Method[c].name = "sendProofInput"
    BY DEF Submissions
  <2>2. SendJob(c)
    BY <1>1, <1>5, <2>1
    DEF Handler, CheckPending, CheckProofs, InsertJob, GetPendingJobIds, GetProof, Handles
  <2> QED  BY <1>2, <2>2 DEF SendJob, Reply, ServerInv
<1>6. ASSUME Worker \/ ProvePanics \/ UNCHANGED vars PROVE call'[c] = "running" /\ at'[c] = "send"
  BY <1>1, <1>6, WorkerStep DEF vars
<1>7. ASSUME NEW P, DropPosts(P) PROVE AtHandler(id)' \/ id \in abandoned'
  <2>1. CASE PostOf(c) \in P
    BY <1>1, <1>2, <1>7, <2>1 DEF DropPosts
  <2>2. CASE PostOf(c) \notin P
    BY <1>1, <1>2, <1>3, <1>7, <2>2 DEF DropPosts, Dropped
  <2> QED  BY <2>1, <2>2
<1>8. ASSUME NEW p \in Posts, ReceivePost(p) PROVE call'[c] = "running" /\ at'[c] = "send"
  <2>1. c \notin CallsOf[p]
    BY <1>2, <1>8, PostOfIsThePost DEF ReceivePost, Receive
  <2> QED  BY <1>1, <1>2, <1>8, <2>1 DEF ReceivePost, Receive
<1>9. ASSUME NEW p \in Posts, AnswerPost(p) PROVE call'[c] = "running" /\ at'[c] = "send"
  BY <1>1, <1>9 DEF AnswerPost, Answer
<1> QED  BY <1>1, <1>3, <1>4, <1>5, <1>6, <1>7, <1>8, <1>9, Zenon DEF Next, ServerEnds

\* Every step that takes an id from one place puts it in the next one, or makes it no
\* longer pending.
LEMMA PendingIsKept ==
  ServerInv /\ QueueInv /\ PendingHasRecord /\ [Next]_vars => PendingHasRecord'
<1> SUFFICES ASSUME ServerInv, QueueInv, PendingHasRecord, [Next]_vars, NEW id \in pending'
             PROVE  Located(id)'
  BY DEF PendingHasRecord, Located, InQueue, AtWorker, AtHandler
<1>0. id \in pending => Located(id)
  BY DEF PendingHasRecord, Located, InQueue, AtWorker, AtHandler
<1>1. ASSUME NEW c \in Calls, InsertJob(c) PROVE Located(id)'
  <2>1. /\ c \in Submissions /\ call'[c] = "running" /\ at'[c] = "send"
        /\ pending' = pending \cup {JobId(c)}
        /\ UNCHANGED <<queue, worker, job, abandoned>>
    BY <1>1 DEF InsertJob, Handles, Proceed, Submissions, ServerInv, workerVars
  <2>2. CASE id = JobId(c)
    BY <2>1, <2>2 DEF Located, AtHandler, JobId, JobIdOf
  <2>3. CASE id \in pending
    <3>1. ASSUME AtHandler(id) PROVE AtHandler(id)' \/ id \in abandoned'
      <4>1. ~\E d \in Submissions : at[d] = "send" /\ at'[d] = "done"
        BY <1>1 DEF InsertJob, Proceed, ServerInv
      <4> QED  BY <3>1, <4>1, AtHandlerStays
    <3> QED  BY <1>0, <2>1, <2>3, <3>1 DEF Located, InQueue, AtWorker
  <2> QED  BY <2>1, <2>2, <2>3
<1>2. ASSUME NEW c \in Calls, SendJob(c) PROVE Located(id)'
  <2>1. pending' = pending /\ UNCHANGED <<worker, job>> /\ c \in Submissions
    BY <1>2 DEF SendJob, Handles, Submissions, storeVars, workerVars
  <2>2. ASSUME AtHandler(id), JobId(c) # id PROVE AtHandler(id)' \/ id \in abandoned'
    <3>1. PICK d \in Submissions : call[d] = "running" /\ at[d] = "send" /\ JobId(d) = id
      BY <2>2 DEF AtHandler
    <3>2. d # c /\ d \in Calls
      BY <2>2, <3>1 DEF Submissions
    <3>3. call'[d] = "running" /\ at'[d] = "send"
      BY <1>2, <3>1, <3>2 DEF SendJob, Reply, ServerInv
    <3> QED  BY <3>1, <3>3 DEF AtHandler, JobId, JobIdOf
  <2>3. CASE worker = "gone"
    BY <2>1, <2>3 DEF Located
  <2>4. CASE worker # "gone"
    <3>1. queue' = Append(queue, Record(c)) /\ abandoned' = abandoned
      BY <1>2, <2>4 DEF SendJob
    <3>2. Record(c) \in Records /\ Record(c).id = JobId(c)
      BY <2>1 DEF Records, Record
    <3>3. InQueue(id) \/ JobId(c) = id => InQueue(id)'
      BY <3>1, <3>2, InAppend DEF InQueue, QueueInv
    <3> QED  BY <1>0, <2>1, <2>2, <3>1, <3>3 DEF Located, AtWorker
  <2> QED  BY <2>3, <2>4
<1>3. ASSUME UNCHANGED <<pending, queue, worker, job>>, abandoned \subseteq abandoned',
             ~\E c \in Submissions : at[c] = "send" /\ at'[c] = "done"
      PROVE  Located(id)'
  BY <1>0, <1>3, AtHandlerStays DEF Located, InQueue, AtWorker
<1>4. ASSUME NEW c \in Calls, Handler(c), ~InsertJob(c), ~SendJob(c) PROVE Located(id)'
  <2>1. UNCHANGED <<pending, queue, worker, job, abandoned>>
    BY <1>4, SMTT(30)
    DEF Handler, CheckPending, CheckProofs, GetPendingJobIds, GetProof, storeVars, workerVars
  <2>2. c \in Submissions => at[c] # "send"
    BY <1>4 DEF Handler, CheckPending, CheckProofs, GetPendingJobIds, GetProof, Handles, Submissions
  <2>3. \A d \in Calls : d # c => at'[d] = at[d]
    BY <1>4, HandlerStep DEF ServerInv
  <2> QED  BY <1>3, <2>1, <2>2, <2>3, SMTT(30) DEF Submissions
<1>5. ASSUME Worker \/ ProvePanics PROVE UNCHANGED <<call, at, abandoned>> /\ AtHandler(id)' = AtHandler(id)
  <2>1. UNCHANGED <<call, at, abandoned>>
    BY <1>5 DEF Worker, Recv, Prove, RemovePending, InsertProof, Dedup, Publish, ProvePanics
  <2> QED  BY <2>1 DEF AtHandler, JobId, JobIdOf
<1>6. CASE Recv
  <2>1. /\ pending' = pending /\ queue # <<>> /\ worker = "recv"
        /\ job' = Head(queue) /\ queue' = Tail(queue) /\ worker' = "prove"
    BY <1>6 DEF Recv, storeVars
  <2>2. InQueue(id) => InQueue(id)' \/ AtWorker(id)'
    BY <2>1, InTail DEF InQueue, AtWorker, QueueInv
  <2> QED  BY <1>0, <1>5, <1>6, <2>1, <2>2 DEF Located, Worker, AtWorker
<1>7. CASE Prove
  BY <1>0, <1>5, <1>7 DEF Prove, Worker, Located, InQueue, AtWorker, storeVars
<1>8. CASE RemovePending
  BY <1>0, <1>5, <1>8 DEF RemovePending, Worker, Located, InQueue, AtWorker
<1>9. CASE InsertProof
  BY <1>0, <1>5, <1>9 DEF InsertProof, Worker, Located, InQueue, AtWorker
<1>10. CASE Dedup \/ Publish
  BY <1>0, <1>5, <1>10 DEF Dedup, Publish, Idle, Worker, Located, InQueue, AtWorker, storeVars
<1>11. CASE ProvePanics
  BY <1>11, SMTT(30) DEF ProvePanics, Located
<1>12. ASSUME NEW P, DropPosts(P) PROVE Located(id)'
  BY <1>3, <1>12 DEF DropPosts, storeVars, workerVars
<1>13. ASSUME NEW p \in Posts, ReceivePost(p) \/ AnswerPost(p) PROVE Located(id)'
  BY <1>3, <1>13 DEF ReceivePost, AnswerPost, storeVars, workerVars
<1>14. CASE UNCHANGED vars
  BY <1>3, <1>14 DEF vars, storeVars, workerVars
<1> QED  BY <1>1, <1>2, <1>4, <1>6, <1>7, <1>8, <1>9, <1>10, <1>11, <1>12, <1>13, <1>14, Zenon
         DEF Next, ServerEnds, Worker, Handler

\* crates/prover: a pending id without a record anywhere is one that a handler was dropped
\* or failed with while sending, or that a panic of the worker lost.
THEOREM PendingKeepsRecord == Spec => []PendingHasRecord
<1>1. Init => QueueInv /\ PendingHasRecord
  BY DEF Init, QueueInv, PendingHasRecord
<1> QED  BY ServerInvInitially, ServerInvIsKept, QueueInvIsKept, PendingIsKept, <1>1, PTL DEF Spec

-----------------------------------------------------------------------------
(* The proof worker publishes a job once. *)

Messages == {Response(r, x) : r \in Records, x \in Results}

\* Between the sent_ids block and publish the id is in sent_ids and in no message yet.
SentInv ==
  /\ queue \in Seq(Records)
  /\ worker \in WorkerSteps
  /\ worker \notin {"recv", "gone"} => job \in Records
  /\ worker \in {"unpend", "store", "dedup", "publish"} => result \in Results
  /\ published \in Seq(Messages)
  /\ \A i \in DOMAIN published : published[i].id \in sent_ids
  /\ \A i, j \in DOMAIN published : published[i].id = published[j].id => i = j
  /\ worker = "publish" =>
       job.id \in sent_ids /\ \A i \in DOMAIN published : published[i].id # job.id

LEMMA SentInvIsKept == SentInv /\ QueueInv' /\ [Next]_vars => SentInv'
<1> SUFFICES ASSUME SentInv, QueueInv', [Next]_vars PROVE SentInv'
  OBVIOUS
<1>1. CASE UNCHANGED workerVars
  BY <1>1 DEF SentInv, QueueInv, workerVars
<1>2. CASE Recv
  BY <1>2, InTail DEF Recv, SentInv, QueueInv, WorkerSteps
<1>3. CASE Prove \/ RemovePending \/ InsertProof \/ ProvePanics
  BY <1>3 DEF Prove, RemovePending, InsertProof, ProvePanics, SentInv, QueueInv, WorkerSteps
<1>4. CASE Dedup
  BY <1>4 DEF Dedup, Idle, SentInv, QueueInv, WorkerSteps
<1>5. CASE Publish
  <2>1. worker' = "recv" /\ sent_ids' = sent_ids /\ worker = "publish"
    BY <1>5 DEF Publish, Idle
  <2>2. CASE published' = published
    BY <2>1, <2>2 DEF SentInv, QueueInv, WorkerSteps
  <2>3. CASE published' = Append(published, Response(job, result))
    <3> DEFINE m == Response(job, result)
    <3>1. m \in Messages /\ m.id = job.id
      BY <2>1 DEF SentInv, Messages, Response
    <3> HIDE DEF m
    <3>2. /\ Len(published) \in Nat /\ DOMAIN published = 1..Len(published)
          /\ published' \in Seq(Messages) /\ DOMAIN published' = 1..(Len(published) + 1)
          /\ \A i \in 1..Len(published) : published'[i] = published[i]
          /\ published'[Len(published) + 1] = m
      BY <2>3, <3>1, AppendProperties, LenProperties DEF SentInv, m
    <3>3. /\ \A i \in DOMAIN published' : published'[i].id \in sent_ids
          /\ \A i, j \in DOMAIN published' : published'[i].id = published'[j].id => i = j
      BY <2>1, <3>1, <3>2 DEF SentInv
    <3> QED  BY <2>1, <3>2, <3>3 DEF SentInv, QueueInv, WorkerSteps
  <2> QED  BY <1>5, <2>2, <2>3 DEF Publish
<1>6. ASSUME NEW c \in Calls, Handler(c) PROVE UNCHANGED workerVars
  BY <1>6 DEF Handler, CheckPending, CheckProofs, InsertJob, SendJob, GetPendingJobIds, GetProof
<1>7. ASSUME NEW P, DropPosts(P) PROVE UNCHANGED workerVars
  BY <1>7 DEF DropPosts
<1>8. ASSUME NEW p, ReceivePost(p) \/ AnswerPost(p) PROVE UNCHANGED workerVars
  BY <1>8 DEF ReceivePost, AnswerPost
<1>9. CASE UNCHANGED vars
  BY <1>1, <1>9 DEF vars
<1> QED  BY <1>1, <1>2, <1>3, <1>4, <1>5, <1>6, <1>7, <1>8, <1>9, Zenon DEF Next, Worker, ServerEnds

\* proof_worker.rs: the proof of a set of blocks is published at most once, however many
\* submissions of it were accepted.
THEOREM PublishedAtMostOnce == Spec => []PublishedOnce
<1>1. Init => QueueInv /\ SentInv
  BY DEF Init, QueueInv, SentInv, WorkerSteps
<1>2. SentInv => PublishedOnce
  <2> SUFFICES ASSUME SentInv, NEW i \in DOMAIN published, NEW j \in DOMAIN published,
                      Range(published[i].id) = Range(published[j].id)
               PROVE  i = j
    BY DEF PublishedOnce
  <2>1. published[i] \in Messages /\ published[j] \in Messages
    BY DEF SentInv
  <2>2. published[i].id \in JobIds /\ published[j].id \in JobIds
    BY <2>1 DEF Messages, Records, Record, Response, JobIds
  <2>3. \A a, b \in JobIds : Range(a) = Range(b) => a = b
    BY JobIdIsOfTheSet, Zenon DEF JobIds, JobId, JobIdOf, Submissions
  <2> QED  BY <2>2, <2>3 DEF SentInv
<1> QED  BY <1>1, <1>2, QueueInvIsKept, SentInvIsKept, PTL DEF Spec

-----------------------------------------------------------------------------
(* A submission that comes after the proof. *)

StartInv == \A c \in Calls : at[c] = "start" => call[c] # "accepted"

LEMMA StartInvIsKept == ServerInv /\ StartInv /\ [Next]_vars => StartInv'
<1> SUFFICES ASSUME ServerInv, StartInv, [Next]_vars, NEW c \in Calls, at'[c] = "start"
             PROVE  call'[c] # "accepted"
  BY DEF StartInv
<1>1. ASSUME NEW d \in Calls, Handler(d) PROVE call'[c] # "accepted"
  <2>1. CASE call' = call
    <3>1. at[c] = "start" \/ (d = c /\ call[c] = "running")
      BY <1>1, HandlerStep DEF ServerInv
    <3> QED  BY <2>1, <3>1 DEF StartInv
  <2>2. CASE call' # call
    <3>1. at[c] = "start" /\ call'[c] = call[c]
      BY <1>1, <2>2, HandlerStep DEF ServerInv
    <3> QED  BY <3>1 DEF StartInv
  <2> QED  BY <2>1, <2>2
<1>2. ASSUME Worker \/ ProvePanics \/ UNCHANGED vars PROVE call'[c] # "accepted"
  BY <1>2, WorkerStep DEF vars, StartInv
<1>3. ASSUME NEW P, DropPosts(P) PROVE call'[c] # "accepted"
  BY <1>3 DEF DropPosts, Dropped, StartInv
<1>4. ASSUME NEW p \in Posts, ReceivePost(p) PROVE call'[c] # "accepted"
  <2>1. Dispatched(c, Accepted) # "accepted"
    BY DEF Dispatched
  <2> QED  BY <1>4, <2>1 DEF ReceivePost, Receive, StartInv
<1>5. ASSUME NEW p \in Posts, AnswerPost(p) PROVE call'[c] # "accepted"
  BY <1>5 DEF AnswerPost, Answer, StartInv
<1> QED  BY <1>1, <1>2, <1>3, <1>4, <1>5, Zenon DEF Next, ServerEnds

\* The proof of a submission is stored, and its handler has not passed already_requested.
Late(c) ==
  /\ JobId(c) \in DOMAIN proofs
  /\ at[c] \in {"start", "checkProofs", "done"}
  /\ call[c] # "accepted"

\* The second lock of already_requested finds the proof, which nothing removes.
LEMMA LateStays ==
  ASSUME NEW c \in Submissions, ServerInv, Late(c), [Next]_vars PROVE Late(c)'
<1>0. c \in Calls /\ Method[c].name = "sendProofInput" /\ JobId(c)' = JobId(c)
  BY DEF Submissions, JobId, JobIdOf
<1>1. ASSUME UNCHANGED proofs, at'[c] = at[c], call'[c] # "accepted" PROVE Late(c)'
  BY <1>0, <1>1 DEF Late
<1>2. ASSUME NEW d \in Calls, Handler(d), d # c PROVE Late(c)'
  <2>1. proofs' = proofs /\ at'[c] = at[c] /\ call'[c] = call[c]
    BY <1>0, <1>2, HandlerStep DEF ServerInv
  <2> QED  BY <1>1, <2>1 DEF Late
<1>3. ASSUME Handler(c) PROVE Late(c)'
  <2>1. CheckPending(c) \/ CheckProofs(c)
    BY <1>0, <1>3, SMTT(30)
    DEF Handler, InsertJob, SendJob, GetPendingJobIds, GetProof, Handles, Late
  <2>2. CASE CheckPending(c)
    BY <1>0, <2>2 DEF CheckPending, Reply, Proceed, Late, ServerInv, storeVars
  <2>3. CASE CheckProofs(c)
    BY <1>0, <2>3 DEF CheckProofs, Reply, Proceed, Late, ServerInv, storeVars
  <2> QED  BY <2>1, <2>2, <2>3
<1>4. ASSUME Worker \/ ProvePanics PROVE Late(c)'
  <2>1. UNCHANGED <<call, at>>
    BY <1>4, WorkerStep
  <2>2. DOMAIN proofs \subseteq DOMAIN proofs'
    BY <1>4, SMTT(30)
    DEF Worker, Recv, Prove, RemovePending, InsertProof, Dedup, Publish, ProvePanics, storeVars
  <2> QED  BY <1>0, <2>1, <2>2 DEF Late
<1>5. ASSUME NEW P, DropPosts(P) PROVE Late(c)'
  BY <1>0, <1>1, <1>5 DEF DropPosts, Dropped, Late, storeVars
<1>6. ASSUME NEW p \in Posts, ReceivePost(p) PROVE Late(c)'
  <2>1. Dispatched(c, Accepted) # "accepted"
    BY DEF Dispatched
  <2> QED  BY <1>0, <1>1, <1>6, <2>1 DEF ReceivePost, Receive, Late, storeVars
<1>7. ASSUME NEW p \in Posts, AnswerPost(p) PROVE Late(c)'
  BY <1>1, <1>7 DEF AnswerPost, Answer, Late, storeVars
<1>8. CASE UNCHANGED vars
  BY <1>1, <1>8 DEF vars, Late, storeVars
<1> QED  BY <1>2, <1>3, <1>4, <1>5, <1>6, <1>7, <1>8, Zenon DEF Next, ServerEnds

\* job_store.rs: a submission that begins when the proof of its blocks is stored is never
\* accepted, whatever the worker and the other handlers do between its two locks.
THEOREM LateDuplicatesAreRefused == Spec => LateDuplicateIsRefused
<1>1. Init => StartInv
  BY DEF Init, ServerInit, StartInv
<1>2. ASSUME NEW c \in Submissions
      PROVE  Spec => [](at[c] = "start" /\ JobId(c) \in DOMAIN proofs => [](call[c] /= "accepted"))
  <2>1. StartInv /\ at[c] = "start" /\ JobId(c) \in DOMAIN proofs => Late(c)
    BY DEF StartInv, Late, Submissions
  <2>2. Late(c) => call[c] /= "accepted"
    BY DEF Late
  <2>3. ServerInv /\ Late(c) /\ [Next]_vars => Late(c)'
    BY LateStays
  <2> QED  BY <1>1, <2>1, <2>2, <2>3, ServerInvInitially, ServerInvIsKept, StartInvIsKept, PTL DEF Spec
<1> QED  BY <1>2 DEF LateDuplicateIsRefused
===============================================================================
