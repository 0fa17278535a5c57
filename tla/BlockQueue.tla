------------------------------ MODULE BlockQueue ------------------------------
(***************************************************************************)
(* What AsyncUniqueHeap promises its users, with no word on how they wait: *)
(* a set of blocks with one block per number, where push says whether it   *)
(* took the block and pop and peek give the block with the lowest number,  *)
(* or nothing from an empty queue and from no other.                       *)
(***************************************************************************)
EXTENDS Naturals

CONSTANTS Numbers, Hashes

Block == [number : Numbers, hash : Hashes]

VARIABLES
  content,   \* the blocks held
  returned   \* the last operation that returned, and what it returned

Returned(op, answer) == [op |-> op, answer |-> answer]

Init == content = {} /\ returned = Returned("none", {})

Lowest(b) == b \in content /\ \A c \in content : b.number <= c.number

Push(b) ==
  IF \E c \in content : c.number = b.number
  THEN returned' = Returned("push", {}) /\ UNCHANGED content
  ELSE returned' = Returned("push", {b}) /\ content' = content \cup {b}

Pop ==
  \/ \E b \in content : Lowest(b) /\ content' = content \ {b} /\ returned' = Returned("pop", {b})
  \/ content = {} /\ returned' = Returned("pop", {}) /\ UNCHANGED content

Peek ==
  \/ \E b \in content : Lowest(b) /\ returned' = Returned("peek", {b}) /\ UNCHANGED content
  \/ content = {} /\ returned' = Returned("peek", {}) /\ UNCHANGED content

Next == (\E b \in Block : Push(b)) \/ Pop \/ Peek

Spec == Init /\ [][Next]_<<content, returned>>

=============================================================================
