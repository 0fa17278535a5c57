----------------------------- MODULE MCLibraries -----------------------------
(***************************************************************************)
(* The client of up to two servers that answer by namespace; the heap with *)
(* one consumer or two; the watcher for three types, reading up to three   *)
(* notifications, some without payload, of another topic or truncated; two *)
(* builders on two coins, with payloads around the size of a push; up to   *)
(* three entries in an attribute.                                          *)
(***************************************************************************)
EXTENDS AllLibraries, TLC

CONSTANTS u1, u2, c1, c2

MCPosts == {u1, u2} \X (1..2)
MCCallsOf == [p \in MCPosts |-> {p}]
\* The method as RpcClient!RpcMethod makes it.
MCMethod == [p \in MCPosts |-> [ns |-> "moj", name |-> "sendProofInput", quoted |-> TRUE]]
MCParams == [p \in MCPosts |-> <<"proverData", "url">>]
MCUrlLists == {<<>>, <<u1>>, <<u1, u2>>}

MCConsumerSets == {{c1}, {c1, c2}}

Notification(frames, topic, kind, bytes) ==
  [frames |-> frames, utf8 |-> topic /= "notUtf8", topic |-> topic,
   payload |-> [kind |-> kind, bytes |-> bytes]]
MCNotifications ==
  {Notification(1, "sequence", "none", 0), Notification(3, "sequence", "D", 33),
   Notification(3, "sequence", "A", 33), Notification(3, "rawblock", "block", 100),
   Notification(3, "hashtx", "tx", 50), Notification(3, "notUtf8", "block", 100)}

MCLiterals == {"moj", "eth"}
MCEntryLists ==
  UNION {[1..n -> [key : {"namespace", "method", "extra"}, value : MCLiterals]] : n \in 0..3}

MCPayloadLists == {<<>>, <<0>>, <<3, 7>>, <<4>>, <<9, 1>>}

=============================================================================
