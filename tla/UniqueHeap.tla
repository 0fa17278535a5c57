------------------------------ MODULE UniqueHeap ------------------------------
(***************************************************************************)
(* crates/utils/src/unique_heap.rs with the blocks of ordered_block.rs and *)
(* the PendingHeap of the node: a heap and the set of its keys under one   *)
(* lock, and a Notify for the callers of pop_wait and peek_wait.  A call   *)
(* holds the lock for one step; between finding the heap empty and         *)
(* listening to the Notify it holds nothing.                               *)
(***************************************************************************)
EXTENDS Naturals, Sequences

CONSTANTS
  Numbers, Hashes,
  ConsumerSets   \* the sets of consumers to consider; one is chosen at the start

Block == [number : Numbers, hash : Hashes]
Key(b) == b.number

VARIABLES
  consumers,
  heap, keys,
  waiters, permit,   \* the Notify: who listens, in order, and a stored permit
  at,                \* each consumer: "idle", "check", "listen", "asleep"
  op,                \* the operation it calls
  returned           \* the last operation that returned, and what it returned

notifyVars == <<waiters, permit>>
vars == <<consumers, heap, keys, notifyVars, at, op, returned>>

Everyone == UNION ConsumerSets
Ops == {"pop", "peek", "pop_wait", "peek_wait"}
Returned(o, answer) == [op |-> o, answer |-> answer]

TypeOK ==
  /\ consumers \in ConsumerSets
  /\ heap \subseteq Block
  /\ keys \subseteq Numbers
  /\ permit \in BOOLEAN
  /\ at \in [Everyone -> {"idle", "check", "listen", "asleep"}]
  /\ op \in [Everyone -> Ops]
  /\ \A c \in Everyone : at[c] = "asleep" <=> \E i \in DOMAIN waiters : waiters[i] = c
  /\ permit => waiters = <<>>

Init ==
  /\ consumers \in ConsumerSets
  /\ heap = {} /\ keys = {}
  /\ waiters = <<>> /\ permit = FALSE
  /\ at = [c \in Everyone |-> "idle"]
  /\ op = [c \in Everyone |-> "pop"]
  /\ returned = Returned("none", {})

-----------------------------------------------------------------------------
\* Notify::notify_one: the listener that came first wakes, or else a permit is stored.
notify_one ==
  IF waiters = <<>>
  THEN permit' = TRUE /\ UNCHANGED <<waiters, at>>
  ELSE /\ at' = [at EXCEPT ![Head(waiters)] = "check"]
       /\ waiters' = Tail(waiters)
       /\ UNCHANGED permit

\* Mutant: the listeners are not told.
push_Silent(b) ==
  /\ IF Key(b) \notin keys
     THEN keys' = keys \cup {Key(b)} /\ heap' = heap \cup {b} /\ returned' = Returned("push", {b})
     ELSE returned' = Returned("push", {}) /\ UNCHANGED <<keys, heap>>
  /\ UNCHANGED <<consumers, notifyVars, at, op>>

\* push; ingest_signed_block calls it for a block whose signature it has verified.
push(b) ==
  /\ IF Key(b) \notin keys
     THEN /\ keys' = keys \cup {Key(b)}
          /\ heap' = heap \cup {b}
          /\ returned' = Returned("push", {b})
          /\ notify_one
     ELSE /\ returned' = Returned("push", {})
          /\ UNCHANGED <<keys, heap, notifyVars, at>>
  /\ UNCHANGED <<consumers, op>>

Call(c, o) ==
  /\ at[c] = "idle"
  /\ at' = [at EXCEPT ![c] = "check"]
  /\ op' = [op EXCEPT ![c] = o]
  /\ UNCHANGED <<consumers, heap, keys, notifyVars, returned>>

\* Mutant: blocks are ordered by number as numbers are.
Greatest_Highest(b) == b \in heap /\ \A d \in heap : d.number <= b.number

\* The maximum of the heap: blocks are ordered by number, the lowest being the greatest.
Greatest(b) == b \in heap /\ \A d \in heap : b.number <= d.number

\* pop, alone or in the loop of pop_wait, on a heap that is not empty.
pop(c) ==
  /\ at[c] = "check" /\ op[c] \in {"pop", "pop_wait"}
  /\ \E b \in heap :
       /\ Greatest(b)
       /\ heap' = heap \ {b}
       /\ keys' = keys \ {Key(b)}
       /\ returned' = Returned("pop", {b})
  /\ at' = [at EXCEPT ![c] = "idle"]
  /\ UNCHANGED <<consumers, notifyVars, op>>

\* peek, alone or in the loop of peek_wait, on a heap that is not empty.
peek(c) ==
  /\ at[c] = "check" /\ op[c] \in {"peek", "peek_wait"}
  /\ \E b \in heap : Greatest(b) /\ returned' = Returned("peek", {b})
  /\ at' = [at EXCEPT ![c] = "idle"]
  /\ UNCHANGED <<consumers, heap, keys, notifyVars, op>>

\* The heap is empty: pop and peek return None; the loops go on to listen.
Empty(c) ==
  /\ at[c] = "check" /\ heap = {}
  /\ IF op[c] \in {"pop", "peek"}
     THEN returned' = Returned(op[c], {}) /\ at' = [at EXCEPT ![c] = "idle"]
     ELSE at' = [at EXCEPT ![c] = "listen"] /\ UNCHANGED returned
  /\ UNCHANGED <<consumers, heap, keys, notifyVars, op>>

\* notified().await: takes the permit, or listens.
notified(c) ==
  /\ at[c] = "listen"
  /\ IF permit
     THEN permit' = FALSE /\ at' = [at EXCEPT ![c] = "check"] /\ UNCHANGED waiters
     ELSE waiters' = Append(waiters, c) /\ at' = [at EXCEPT ![c] = "asleep"] /\ UNCHANGED permit
  /\ UNCHANGED <<consumers, heap, keys, op, returned>>

Run(c) == pop(c) \/ peek(c) \/ Empty(c) \/ notified(c)

Next ==
  \/ \E b \in Block : push(b)
  \/ \E c \in consumers : Run(c) \/ \E o \in Ops : Call(c, o)

Spec == Init /\ [][Next]_vars /\ \A c \in Everyone : WF_vars(Run(c))

-----------------------------------------------------------------------------
(* Properties. *)

Queue == INSTANCE BlockQueue WITH content <- heap

\* The heap with its separate set of keys does what BlockQueue promises: push refuses a
\* number exactly while a block with it is held, pop and peek give the lowest.
IsBlockQueue == Queue!Spec

\* The strengthening that the refinement rests on: the set of keys is the set of the
\* keys of the heap, and no two blocks of the heap share one.
KeysMatch ==
  /\ keys = {Key(b) : b \in heap}
  /\ \A b, d \in heap : Key(b) = Key(d) => b = d

\* A consumer that is alone is never left waiting with a block in the heap.  With two, one
\* permit may stand for two pushes, and a peek may use up the wake-up of a pop.
LoneConsumerIsServed ==
  \A c \in Everyone :
    consumers = {c} /\ at[c] /= "idle" /\ heap /= {} ~> at[c] = "idle"

=============================================================================
