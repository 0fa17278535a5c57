------------------------------ MODULE MCProver ------------------------------
(***************************************************************************)
(* Three submissions, two of them of the same blocks in another order,     *)
(* each in a batch with other requests: wrong params, a method in          *)
(* quotation marks, queries, a third submission; and a body that does not  *)
(* parse.                                                                  *)
(***************************************************************************)
EXTENDS Prover

CONSTANTS p1, p2, p3, s1, s2, s3, list, get, bad, quoted

MCPosts == {p1, p2, p3}
MCCalls == {s1, s2, s3, list, get, bad, quoted}
MCCallsOf == (p1 :> {s1, bad, quoted, list}) @@ (p2 :> {s2, s3, get}) @@ (p3 :> {})

Moj(name) == [ns |-> "moj", name |-> name, quoted |-> FALSE]

MCMethod == [c \in MCCalls |->
  CASE c = list   -> Moj("getPendingJobIds")
    [] c = get    -> Moj("getProof")
    [] c = quoted -> [Moj("getPendingJobIds") EXCEPT !.quoted = TRUE]
    [] OTHER      -> Moj("sendProofInput")]
MCParams == [c \in MCCalls |->
  CASE c \in {list, quoted} -> <<>>
    [] c = get -> <<"string">>
    [] c = bad -> <<"object", "object">>
    [] c = s2  -> <<"object">>
    [] OTHER   -> <<"proverData", "url">>]

MCHandlers == {Moj("getPendingJobIds"), Moj("getProof"), Moj("sendProofInput")}
MCFallbacks == {}

MCBlocksOf == (s1 :> <<1, 2>>) @@ (s2 :> <<2, 1>>) @@ (s3 :> <<3>>) @@ (bad :> <<3>>)
MCBatchOf == (s1 :> 1) @@ (s2 :> 1) @@ (s3 :> 2) @@ (bad :> 2)
MCWanted == (get :> <<1, 2>>)

=============================================================================
