------------------------------ MODULE BtcWatcher ------------------------------
(***************************************************************************)
(* crates/btc-watcher: a task reads the ZMQ notifications of bitcoind and  *)
(* sends the decoded items into a broadcast channel.  Any failure ends it. *)
(* The handle can subscribe receivers, shut the watcher down, and join it. *)
(*                                                                         *)
(* A notification is the number of its frames, its topic and its payload.  *)
(* A payload is the kind of object it holds and its length in bytes; the   *)
(* length matters only for the sequence topic.                             *)
(***************************************************************************)
EXTENDS Naturals, Sequences

CONSTANTS
  ItemTypes,      \* the types T the watcher may be built for
  Notifications,  \* what bitcoind may publish
  Receivers,
  Capacity,       \* of the broadcast channel
  MaxReceived     \* bound: notifications read from the socket

VARIABLES
  T,          \* the type the watcher decodes
  received,   \* the notifications read from the socket
  watch,      \* "spawning", "watching", "stopped", "socketError", "decodeError", "sendError"
  log,        \* the items sent into the channel, in order, each with the number of
              \* the notification it was decoded from
  rx,         \* each receiver: subscribed or not, where it began and is, what it missed
  shutdown,   \* the cancellation token
  handle      \* whether the WatcherHandle, with its sender, is still held

vars == <<T, received, watch, log, rx, shutdown, handle>>

Unsubscribed == [on |-> FALSE, from |-> 0, pos |-> 0, got |-> 0, missed |-> 0, closed |-> FALSE]
Ended == {"stopped", "socketError", "decodeError", "sendError"}

\* Decodable for Sequence: the kind byte decides whether a mempool sequence follows, and
\* deserialize wants every byte consumed.
SequenceEvents == {"C", "D", "A", "R", "unknown"}
DecodesSequence(p) ==
  /\ p.kind \in SequenceEvents
  /\ p.bytes = 32 + 1 + (IF p.kind \in {"A", "R"} THEN 8 ELSE 0)

\* decode for Block, Transaction and Sequence, which do not look at the topic.
DecodesAs(type, p) ==
  CASE type = "Block"       -> p.kind = "block"
    [] type = "Transaction" -> p.kind = "tx"
    [] type = "Sequence"    -> DecodesSequence(p)

\* decode for Multi: the topic decides.
TypeOfTopic == [rawblock |-> "Block", rawtx |-> "Transaction", sequence |-> "Sequence"]
DecodesMulti(topic, p) ==
  topic \in DOMAIN TypeOfTopic /\ DecodesAs(TypeOfTopic[topic], p)

Decodes(n) ==
  IF T = "Multi" THEN DecodesMulti(n.topic, n.payload) ELSE DecodesAs(T, n.payload)

Init ==
  /\ T \in ItemTypes
  /\ received = <<>> /\ log = <<>>
  /\ watch = "spawning"
  /\ rx = [r \in Receivers |-> Unsubscribed]
  /\ shutdown = FALSE /\ handle = TRUE

TypeOK ==
  /\ T \in ItemTypes
  /\ received \in Seq(Notifications) /\ Len(received) <= MaxReceived
  /\ watch \in {"spawning", "watching"} \cup Ended
  /\ \A i \in DOMAIN log : \E n \in Notifications : Decodes(n) /\ log[i].payload = n.payload
  /\ \A r \in Receivers : rx[r].from <= rx[r].pos /\ rx[r].pos <= Len(log)
  /\ shutdown \in BOOLEAN /\ handle \in BOOLEAN

-----------------------------------------------------------------------------
(* The task. *)

\* WatcherBuilder::spawn: the socket connects and subscribes; the task is running before
\* the handle is returned and anyone can subscribe.
Spawn ==
  /\ watch = "spawning"
  /\ watch' = "watching"
  /\ UNCHANGED <<T, received, log, rx, shutdown, handle>>

\* The item that is decoded from n, with the number of the notification.
Item(n) == [of |-> Len(received) + 1, payload |-> n.payload]

HasReceiver == \E r \in Receivers : rx[r].on

\* Mutant: a payload that does not decode is skipped.
process_message_Lenient(n) ==
  IF n.frames < 2 \/ ~Decodes(n)
  THEN UNCHANGED <<watch, log>>
  ELSE IF HasReceiver THEN log' = Append(log, Item(n)) /\ UNCHANGED watch
                      ELSE watch' = "sendError" /\ UNCHANGED log

\* process_message: no payload frame, skip; a decoding error, or an item that nobody is
\* subscribed to, ends the watcher.
process_message(n) ==
  IF n.frames < 2
  THEN UNCHANGED <<watch, log>>
  ELSE IF ~n.utf8 \/ ~Decodes(n) THEN watch' = "decodeError" /\ UNCHANGED log
  ELSE IF HasReceiver THEN log' = Append(log, Item(n)) /\ UNCHANGED watch
  ELSE watch' = "sendError" /\ UNCHANGED log

\* watch: the branch of select! for the socket, taken when the token is not cancelled.
Receive(n) ==
  /\ watch = "watching" /\ ~shutdown
  /\ Len(received) < MaxReceived
  /\ received' = Append(received, n)
  /\ process_message(n)
  /\ UNCHANGED <<T, rx, shutdown, handle>>

SocketFails ==
  /\ watch = "watching" /\ ~shutdown
  /\ watch' = "socketError"
  /\ UNCHANGED <<T, received, log, rx, shutdown, handle>>

\* watch: the branch for the token, which is looked at first.
Stop ==
  /\ watch = "watching" /\ shutdown
  /\ watch' = "stopped"
  /\ UNCHANGED <<T, received, log, rx, shutdown, handle>>

-----------------------------------------------------------------------------
(* The handle and the receivers. *)

\* subscribe: a receiver gets what is sent from now on.
Subscribe(r) ==
  /\ handle /\ watch /= "spawning" /\ ~rx[r].on /\ ~rx[r].closed
  /\ rx' = [rx EXCEPT ![r].on = TRUE, ![r].from = Len(log), ![r].pos = Len(log)]
  /\ UNCHANGED <<T, received, watch, log, shutdown, handle>>

Shutdown ==
  /\ handle /\ ~shutdown
  /\ shutdown' = TRUE
  /\ UNCHANGED <<T, received, watch, log, rx, handle>>

\* join: returns when the task has ended; the handle and its sender are gone.
Join ==
  /\ handle /\ watch \in Ended
  /\ handle' = FALSE
  /\ UNCHANGED <<T, received, watch, log, rx, shutdown>>

\* recv on the channel: the next item, or the number of items that were overwritten, or
\* the end when every sender is gone.
Recv(r) ==
  /\ rx[r].on
  /\ LET oldest == IF Len(log) > Capacity THEN Len(log) - Capacity ELSE 0
     IN \/ /\ rx[r].pos < oldest
           /\ rx' = [rx EXCEPT ![r].pos = oldest, ![r].missed = @ + oldest - rx[r].pos]
        \/ /\ oldest <= rx[r].pos /\ rx[r].pos < Len(log)
           /\ rx' = [rx EXCEPT ![r].pos = @ + 1, ![r].got = @ + 1]
        \/ /\ rx[r].pos = Len(log) /\ watch \in Ended /\ ~handle
           /\ rx' = [rx EXCEPT ![r].on = FALSE, ![r].closed = TRUE]
  /\ UNCHANGED <<T, received, watch, log, shutdown, handle>>

Next ==
  \/ Spawn \/ (\E n \in Notifications : Receive(n)) \/ SocketFails \/ Stop
  \/ Shutdown \/ Join
  \/ \E r \in Receivers : Subscribe(r) \/ Recv(r)

Spec == Init /\ [][Next]_vars

-----------------------------------------------------------------------------
(* Properties. *)

\* The items of the notifications with a payload.
Items == {[of |-> i, payload |-> received[i].payload] :
            i \in {j \in DOMAIN received : received[j].frames >= 2}}

\* The stream has no hole: as long as the watcher has not failed, every notification with
\* a payload has been sent, once and in order, and what a receiver got and what it was
\* told it missed are together everything since it subscribed.  A reorg signal is never
\* skipped.
NoSilentGap ==
  /\ watch \in {"watching", "stopped"} =>
       /\ {log[k] : k \in DOMAIN log} = Items
       /\ \A k, l \in DOMAIN log : k < l => log[k].of < log[l].of
  /\ \A r \in Receivers : rx[r].pos - rx[r].from = rx[r].got + rx[r].missed

=============================================================================
