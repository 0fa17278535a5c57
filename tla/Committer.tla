------------------------------ MODULE Committer ------------------------------
(***************************************************************************)
(* crates/batch-submitter/src/committer.rs run by Runner of crates/task:   *)
(* a service that takes the batches from the broadcast channel of a batch  *)
(* producer, publishes each in a message queue and gossips it to the peers *)
(* (the commit to L1 is a stub).  Any error ends the runner; so does its   *)
(* cancellation, at any await.                                             *)
(*                                                                         *)
(* The channel, the queue and the peer-to-peer network are external.  The  *)
(* id of a message is a hash of the batch number and stands for it.        *)
(***************************************************************************)
EXTENDS Naturals, Sequences

CONSTANT MaxBatchToBroadcast   \* the capacity of the channel

VARIABLES
  inbox,      \* the batches in the channel that the committer has not taken
  lagged,     \* the channel has dropped a batch that it had not taken
  closed,     \* the sender is gone
  runner,     \* "off", or where Runner::run is
  held,       \* the batch it has taken from the channel
  published   \* the messages in the queue since it subscribed

committerVars == <<inbox, lagged, closed, runner, held, published>>

Alive == runner \in {"recv", "publish", "gossip"}

\* The channel of the current producer has a receiver.
Listening == Alive /\ ~closed

CommitterInit ==
  /\ inbox = <<>> /\ held = <<>> /\ published = <<>>
  /\ lagged = FALSE /\ closed = FALSE
  /\ runner = "off"

\* Runner::new(Committer::new(producer.subscribe(), ...)).spawn()
Subscribe ==
  /\ ~Alive
  /\ inbox' = <<>> /\ held' = <<>> /\ published' = <<>>
  /\ lagged' = FALSE /\ closed' = FALSE
  /\ runner' = "recv"

\* send of the broadcast channel: a full channel forgets its oldest batch.
Send(message) ==
  /\ Listening
  /\ inbox' = IF Len(inbox) < MaxBatchToBroadcast
              THEN Append(inbox, message) ELSE Append(Tail(inbox), message)
  /\ lagged' = (lagged \/ Len(inbox) = MaxBatchToBroadcast)
  /\ UNCHANGED <<closed, runner, held, published>>

\* The producer is dropped, or the channel with the whole process.
Close ==
  /\ closed' = TRUE
  /\ UNCHANGED <<inbox, lagged, runner, held, published>>

\* The receiver is dropped, and with it what was in the channel.
Dropped == runner' = "ended" /\ held' = <<>> /\ inbox' = <<>> /\ UNCHANGED <<lagged, closed>>

Ends == Dropped /\ UNCHANGED published

\* Mutant: a receiver that has lagged behind goes on with the oldest batch left.
Recv_Lenient ==
  /\ runner = "recv" /\ inbox # <<>>
  /\ held' = <<Head(inbox)>> /\ inbox' = Tail(inbox)
  /\ lagged' = FALSE
  /\ runner' = "publish"
  /\ UNCHANGED <<closed, published>>

Recv ==
  /\ runner = "recv"
  /\ \/ /\ inbox # <<>> /\ ~lagged
        /\ held' = <<Head(inbox)>> /\ inbox' = Tail(inbox)
        /\ runner' = "publish"
        /\ UNCHANGED <<lagged, closed, published>>
     \/ (lagged \/ (inbox = <<>> /\ closed)) /\ Ends

Publish ==
  /\ runner = "publish"
  /\ \/ published' = published \o held /\ runner' = "gossip"
        /\ UNCHANGED <<inbox, lagged, closed, held>>
     \/ Ends

Gossip ==
  /\ runner = "gossip"
  /\ \/ held' = <<>> /\ runner' = "recv" /\ UNCHANGED <<inbox, lagged, closed, published>>
     \/ Ends

\* select! in Runner::run: a signal or the token ends it wherever it waits; the queue may
\* have taken the message of the publish that is given up.
Cancel ==
  /\ Alive
  /\ \/ Ends
     \/ runner = "publish" /\ published' = published \o held /\ Dropped

CommitterNext == Recv \/ Publish \/ Gossip \/ Cancel
=============================================================================
