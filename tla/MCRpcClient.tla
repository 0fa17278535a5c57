----------------------------- MODULE MCRpcClient -----------------------------
(***************************************************************************)
(* A call to up to two servers, at most two attempts each.                 *)
(***************************************************************************)
EXTENDS RpcClient, TLC

CONSTANTS u1, u2

MCPosts == {u1, u2} \X (1..2)
MCCallsOf == [p \in MCPosts |-> {p}]
MCMethod == [p \in MCPosts |-> RpcMethod("sendProofInput")]
MCParams == [p \in MCPosts |-> <<"proverData", "url">>]
MCUrlLists == {<<>>, <<u1>>, <<u1, u2>>}
MCProverHandlers == {[ns |-> "moj", name |-> n, quoted |-> FALSE] :
                       n \in {"getPendingJobIds", "getProof", "sendProofInput"}}

=============================================================================
