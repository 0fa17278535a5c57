------------------------------ MODULE RpcServer ------------------------------
(***************************************************************************)
(* crates/rpc: the JSON-RPC server.  A POST carries one request or a batch *)
(* of them, or a body that is not JSON-RPC.  The requests of a batch are   *)
(* dispatched together and the POST is answered when all of them are.      *)
(* When the peer closes the connection the server drops the POST and with  *)
(* it the handlers that have not finished, at whatever await they are.     *)
(*                                                                         *)
(* A method is its namespace, its name, and whether the string is wrapped  *)
(* in quotation marks.  Params are the sequence of the kinds of its JSON   *)
(* values.  What a handler does is up to the module that uses this one.    *)
(***************************************************************************)
EXTENDS Naturals, Sequences

CONSTANTS
  Posts, Calls,
  CallsOf,     \* the requests of a POST; {} for a body that does not parse
  Method,      \* the method of each request
  Params,      \* the params of each request
  Handlers,    \* the methods the registry has a handler for
  Fallbacks    \* the namespaces it has a fallback for

ASSUME RequestsBelongToPosts ==
  /\ CallsOf \in [Posts -> SUBSET Calls]
  /\ \A c \in Calls : \E p \in Posts : {q \in Posts : c \in CallsOf[q]} = {p}

VARIABLES
  post,        \* each POST: "new", "open", "answered", "rejected", "dropped"
  call         \* each request: "idle", "running", "cut", or its reply

Running == {"running"}
Refusals == {"methodNotFound", "badParams"}

Namespaces == {"debug", "eth", "moj", "net", "txpool", "web3"}

PostOf(c) == CHOOSE p \in Posts : c \in CallsOf[p]

-----------------------------------------------------------------------------
\* The value that the #[rpc] macro deserializes the parameter of a handler from: null,
\* the one param, or the array of them.
ParamsValue(ps) ==
  CASE Len(ps) = 0 -> <<"null">>
    [] Len(ps) = 1 -> ps
    [] OTHER       -> <<"array">> \o ps

\* RpcRegistry::dispatch: the handler registered under the very string of the request,
\* else the fallback of its namespace, which is resolved without quotation marks.
Route(c) ==
  IF Method[c] \in Handlers THEN "handler"
  ELSE IF Method[c].ns \in Namespaces \cap Fallbacks THEN "fallback"
  ELSE "methodNotFound"

\* Dispatch, up to the first step of the handler.  Params are parsed by the code that
\* the #[rpc] macro generates around a handler, and accepted are the requests whose
\* params it can parse; a fallback gets the request as it is.
Dispatched(c, accepted) ==
  IF Route(c) = "methodNotFound" THEN "methodNotFound"
  ELSE IF Route(c) = "handler" /\ c \notin accepted THEN "badParams"
  ELSE "running"

ServerInit ==
  /\ post = [p \in Posts |-> "new"]
  /\ call = [c \in Calls |-> "idle"]

\* handle: the body arrives and is parsed.
Receive(p, accepted) ==
  /\ post[p] = "new"
  /\ IF CallsOf[p] = {}
     THEN post' = [post EXCEPT ![p] = "rejected"] /\ UNCHANGED call
     ELSE /\ post' = [post EXCEPT ![p] = "open"]
          /\ call' = [c \in Calls |-> IF c \in CallsOf[p] THEN Dispatched(c, accepted)
                                      ELSE call[c]]

\* Mutant: the first response of a batch answers the whole POST.
Answer_First(p) ==
  /\ post[p] = "open"
  /\ \E c \in CallsOf[p] : call[c] \notin Running
  /\ post' = [post EXCEPT ![p] = "answered"]
  /\ UNCHANGED call

\* join_all has the response of every request of the POST.
Answer(p) ==
  /\ post[p] = "open"
  /\ \A c \in CallsOf[p] : call[c] \notin Running
  /\ post' = [post EXCEPT ![p] = "answered"]
  /\ UNCHANGED call

\* The connections of P are closed before the answer, or the server ends.
Dropped(P) ==
  /\ post' = [p \in Posts |-> IF p \in P /\ post[p] \in {"new", "open"} THEN "dropped"
                                     ELSE post[p]]
  /\ call' = [c \in Calls |-> IF PostOf(c) \in P /\ call[c] \in Running THEN "cut" ELSE call[c]]

=============================================================================
