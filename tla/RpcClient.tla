------------------------------ MODULE RpcClient ------------------------------
(***************************************************************************)
(* crates/client: one call of a MojaveClient, against the JSON-RPC servers *)
(* of its URLs.  Each attempt at a URL is a POST of one request, named     *)
(* <<url, attempt>>.  The client may get the answer, be refused, or give   *)
(* up when the HTTP timeout passes; a POST it gave up on may still be      *)
(* served, and the server may or may not notice that the peer has gone.    *)
(* The waits between retries are left out: a delay is any number of steps. *)
(***************************************************************************)
EXTENDS RpcServer

CONSTANTS
  UrlLists,     \* the lists of target URLs
  MaxRetries    \* the values of RetryConfig::max_retries

VARIABLES
  conf,         \* [strategy, urls, max_retries]
  step,         \* "start", "try", "wait", "done"
  url, attempt, \* the loop variables of the sequential strategy
  posted,       \* the POSTs made
  waiting,      \* those whose answer the client waits for
  unread,       \* history: the POSTs it gave up on, or whose answer it could not decode
  outcome       \* "none", "ok", or the error returned

clientVars == <<conf, step, url, attempt, posted, waiting, unread, outcome>>
vars == <<post, call, clientVars>>

Errors == {"noUrls", "retryFailed", "reqwest", "serdeJson", "custom"}

\* The POSTs of the sequence of URLs, first attempts only.
FirstTries(urls) == {<<urls[i], 1>> : i \in DOMAIN urls}

\* create_rpc_request: the method is serialized, and so wrapped in quotation marks.
RpcMethod(name) == [ns |-> "moj", name |-> name, quoted |-> TRUE]

TypeOK ==
  /\ post \in [Posts -> {"new", "open", "answered", "dropped"}]
  /\ call \in [Calls -> {"idle", "cut", "running", "ok", "failed"} \cup Refusals]
  /\ step \in {"start", "try", "wait", "done"}
  /\ url \in 0..Len(conf.urls)
  /\ attempt \in 0..conf.max_retries
  /\ posted \subseteq Posts
  /\ waiting \subseteq posted /\ unread \subseteq posted
  /\ waiting \cap unread = {}
  /\ outcome \in {"none", "ok"} \cup Errors
  /\ (step = "done") = (outcome /= "none")
  /\ step = "done" => waiting = {}

Init ==
  /\ ServerInit
  /\ conf \in [strategy : {"sequential", "race"}, urls : UrlLists, max_retries : MaxRetries]
  /\ step = "start" /\ url = 0 /\ attempt = 0
  /\ posted = {} /\ waiting = {} /\ unread = {}
  /\ outcome = "none"

-----------------------------------------------------------------------------
(* The client. *)

Return(r) ==
  /\ outcome' = r
  /\ step' = "done"
  /\ waiting' = {}

\* send_rpc_request: no URLs is an error; then the strategy.
Start ==
  /\ step = "start"
  /\ CASE conf.urls = <<>> ->
            Return("noUrls") /\ UNCHANGED url
       [] conf.urls /= <<>> /\ conf.strategy = "sequential" ->
            step' = "try" /\ url' = 1 /\ UNCHANGED <<waiting, outcome>>
       [] conf.urls /= <<>> /\ conf.strategy = "race" ->
            step' = "wait" /\ waiting' = FirstTries(conf.urls) /\ UNCHANGED <<url, outcome>>
  /\ posted' = waiting'
  /\ UNCHANGED <<post, call, conf, attempt, unread>>

\* Mutant: an error of the HTTP client is retried.
is_retryable_error_Http(error) == error \in {"timeOut", "reqwest"}

\* Only Error::TimeOut is; a timeout of the HTTP client is an Error::Reqwest.
is_retryable_error(error) == error = "timeOut"

\* The end of the attempts at a URL: the next URL, or the last error.
NextUrl(error) ==
  IF url < Len(conf.urls)
  THEN step' = "try" /\ url' = url + 1 /\ attempt' = 0 /\ waiting' = {} /\ UNCHANGED outcome
  ELSE Return(error) /\ UNCHANGED <<url, attempt>>

\* send_request_with_retry, the head of the loop.
Try ==
  /\ step = "try"
  /\ IF attempt < conf.max_retries
     THEN /\ attempt' = attempt + 1
          /\ waiting' = {<<conf.urls[url], attempt + 1>>}
          /\ posted' = posted \cup waiting'
          /\ step' = "wait"
          /\ UNCHANGED <<url, outcome>>
     ELSE NextUrl("retryFailed") /\ UNCHANGED posted
  /\ UNCHANGED <<post, call, conf, unread>>

\* Mutant: the first response decides the race, be it an error.
Fail_First(p, error) ==
  IF conf.strategy = "race"
  THEN Return("custom") /\ UNCHANGED <<url, attempt>>
  ELSE IF is_retryable_error(error) /\ attempt < conf.max_retries
       THEN step' = "try" /\ waiting' = {} /\ UNCHANGED <<url, attempt, outcome>>
       ELSE NextUrl(error)

\* The attempt p ended with an error.  select_ok fails only when every request has.
Fail(p, error) ==
  IF conf.strategy = "race"
  THEN IF waiting = {p}
       THEN Return("custom") /\ UNCHANGED <<url, attempt>>
       ELSE waiting' = waiting \ {p} /\ UNCHANGED <<step, url, attempt, outcome>>
  ELSE IF is_retryable_error(error) /\ attempt < conf.max_retries
       THEN step' = "try" /\ waiting' = {} /\ UNCHANGED <<url, attempt, outcome>>
       ELSE NextUrl(error)

\* send_request_once has the response to p; a result may not decode to the type asked for.
Response(p) ==
  /\ p \in waiting /\ post[p] = "answered"
  /\ \/ call[p] = "ok" /\ Return("ok") /\ UNCHANGED <<url, attempt, unread>>
     \/ call[p] = "ok" /\ Fail(p, "serdeJson") /\ unread' = unread \cup {p}
     \/ call[p] /= "ok" /\ Fail(p, "custom") /\ UNCHANGED unread
  /\ UNCHANGED <<post, call, conf, posted>>

\* The connection is refused or lost, the timeout passes, or the body is no response.
NoResponse(p) ==
  /\ p \in waiting
  /\ unread' = unread \cup {p}
  /\ Fail(p, "reqwest")
  /\ UNCHANGED <<post, call, conf, posted>>

-----------------------------------------------------------------------------
(* The servers.  Params are the concern of the handlers; see Prover. *)

\* A POST that is on its way arrives, perhaps after the client gave up.
ServerReceives(p) ==
  /\ p \in posted
  /\ Receive(p, Calls)
  /\ UNCHANGED clientVars

ServerHandles(p) ==
  /\ call[p] = "running"
  /\ \E r \in {"ok", "failed"} : call' = [call EXCEPT ![p] = r]
  /\ UNCHANGED <<post, clientVars>>

ServerAnswers(p) ==
  /\ Answer(p)
  /\ UNCHANGED clientVars

\* The server notices that the client has gone.
ServerDrops(p) ==
  /\ post[p] = "open" /\ p \notin waiting
  /\ Dropped({p})
  /\ UNCHANGED clientVars

Client == Start \/ Try \/ \E p \in Posts : Response(p) \/ NoResponse(p)

Server == \E p \in Posts :
  ServerReceives(p) \/ ServerHandles(p) \/ ServerAnswers(p) \/ ServerDrops(p)

Next == Client \/ Server

Spec == Init /\ [][Next]_vars

-----------------------------------------------------------------------------
(* Properties. *)

Contacted(u) == {p \in posted : p[1] = u}

\* One call never posts the same request twice to a URL, whatever max_retries is: an
\* attempt that timed out may have been served.
AtMostOncePerUrl ==
  \A i \in DOMAIN conf.urls : \A p, q \in Contacted(conf.urls[i]) : p = q

\* A call that returned an error is served nowhere, then or later, except by a POST that
\* the client gave up on or whose answer it could not decode: a race fails only when every
\* request has.
FailedCallStaysFailed ==
  outcome \in Errors =>
    \A p \in Posts \ unread : call[p] \notin {"ok", "running"}

\* A request of the client for a method that the server has registered reaches the
\* handler: docs/rpc/server.md, "maps JSON-RPC method names (e.g. "eth_chainId",
\* "moj_getPendingJobIds") to async handlers".
RegisteredIsServed ==
  \A p \in Posts :
    [Method[p] EXCEPT !.quoted = FALSE] \in Handlers => call[p] /= "methodNotFound"

=============================================================================
