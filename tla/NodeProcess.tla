---------------------------- MODULE NodeProcess ----------------------------
(***************************************************************************)
(* One data directory and the processes started on it, one after another   *)
(* or at the same time: MojaveNode::init and MojaveNode::run of the node,  *)
(* run_sequencer outside Kubernetes, and start_api of the prover, with the *)
(* files they leave to the next process: node.key, node_config.json and,   *)
(* from Daemon, the PID file.                                              *)
(*                                                                         *)
(* A file is written in two steps, created empty and then filled.  A read  *)
(* of node.key may fail; one of a complete node_config.json does not.      *)
(* Each start takes at least a second of the clock that an ENR sequence    *)
(* number is taken from when there is no config.                           *)
(***************************************************************************)
EXTENDS Daemon

CONSTANTS
  Peers,   \* nodes that may become connected peers
  Partial, \* the contents of a file whose write was not finished
  Cli      \* the key that a get-pub-key command makes

ASSUME ProcessConstants ==
  /\ Procs \subseteq Nat /\ None \notin Procs /\ Cli \notin Procs
  /\ MaxOverlaps \in Nat
  /\ None \notin [lock : Procs, pid : Procs \cup {None}]
  /\ {None, Partial} \cap [seq : Nat, peers : SUBSET Peers] = {}

VARIABLES
  keyFile,  \* node.key: None, Partial or a key, named after its maker
  config,   \* node_config.json: None, Partial or [seq, peers]
  clock,    \* seconds
  last      \* history, of the latest process that served: its seq, the peers it saved, and
            \* its key until that is removed or replaced on purpose

nodeVars == <<keyFile, config, clock, last>>
vars == <<daemonVars, nodeVars>>

Readable(file) == file \notin {None, Partial}

TypeOK ==
  /\ program \in Programs
  /\ at \in [Procs -> {"idle", "validating", "starting", "unlinking", "opening", "forked", "main",
                       "signer", "saving_key", "record", "network", "run", "api", "serving",
                       "ended"} \cup Closing]
  /\ pidFile = None \/ pidFile \in [lock : Procs, pid : Procs \cup {None}]
  /\ stopper \in Procs \cup {None} /\ cli \in BOOLEAN /\ overlaps \in 0..MaxOverlaps
  /\ keyFile \in Procs \cup {None, Cli, Partial}
  /\ Readable(config) => config \in [seq : Nat, peers : SUBSET Peers]
  /\ mem \in [Procs -> [opts : Options, key : Procs \cup {None, Cli}, seq : Nat,
                      dial : SUBSET Peers, peers : SUBSET Peers,
                      health : {"off", "listening", "busy", "failed", "stopped"}]]
  /\ last \in [seq : Nat, saved : BOOLEAN, peers : SUBSET Peers, key : Procs \cup {None, Cli}]

Init ==
  /\ DaemonInit
  /\ keyFile = None /\ config = None
  /\ clock = 0
  /\ last = [seq |-> 0, saved |-> FALSE, peers |-> {}, key |-> None]

\* The sockets a process has open.
Binds(p, port) ==
  CASE port = "p2p" -> at[p] \in {"run", "api", "serving"} \cup Closing
    [] port = "health" -> is_pid_running(p) /\ mem[p].health \in {"listening", "busy"}
    [] port = "http" -> at[p] = "serving" /\ program # "sequencer"

Free(port) == \A q \in Procs : ~Binds(q, port)

Rest == <<program, pidFile, stopper, cli, overlaps>>

\* An error of any step before the process serves ends it, as Crash does.
validate_node_options(p) ==
  /\ at[p] = "validating"
  /\ Goto(p, IF \A port \in {"p2p", "health", "http"} : Free(port) THEN "starting" ELSE "ended")
  /\ UNCHANGED <<Rest, nodeVars>>

\* --force removes the whole data directory, the PID file in it included.
RemoveDataDir(p) ==
  /\ at[p] = "main" /\ program # "prover"
  /\ Goto(p, "signer")
  /\ IF mem[p].opts.force
     THEN /\ pidFile' = None /\ keyFile' = None /\ config' = None
          /\ last' = [last EXCEPT !.saved = FALSE, !.key = None]
     ELSE UNCHANGED <<pidFile, keyFile, config, last>>
  /\ UNCHANGED <<program, stopper, cli, overlaps, clock>>

get_signer_InMemory(p) ==
  /\ at[p] = "signer"
  /\ IF keyFile = Partial
     THEN Goto(p, "ended")
     ELSE GotoWith(p, "record", [mem[p] EXCEPT !.key = IF keyFile = None THEN p ELSE keyFile])
  /\ UNCHANGED <<Rest, keyFile, config, clock, last>>

\* A key is made and its file created, which empties one that is there.
CreateKey ==
  /\ keyFile' = Partial
  /\ last' = IF keyFile = None THEN last ELSE [last EXCEPT !.key = None]

\* get_signer takes any error of the read, and not only a missing file, for the lack of a
\* key; a file that it can read and that holds no key is an error.
get_signer(p) ==
  /\ at[p] = "signer"
  /\ \/ /\ Readable(keyFile)
        /\ GotoWith(p, "record", [mem[p] EXCEPT !.key = keyFile])
        /\ UNCHANGED <<keyFile, last>>
     \/ /\ keyFile = Partial
        /\ Goto(p, "ended")
        /\ UNCHANGED <<keyFile, last>>
     \/ /\ GotoWith(p, "saving_key", [mem[p] EXCEPT !.key = p])
        /\ CreateKey
  /\ UNCHANGED <<Rest, config, clock>>

SaveKey(p) ==
  /\ at[p] = "saving_key"
  /\ keyFile' = mem[p].key
  /\ Goto(p, "record")
  /\ UNCHANGED <<Rest, config, clock, last>>

(***************************************************************************)
(* The get-pub-key command goes through get_signer too.  If it can read    *)
(* the file it prints the key, or the error, and changes nothing.          *)
(*                                                                         *)
(* It takes its --datadir as it is, where MojaveNode::init resolves a      *)
(* relative one from the home directory (resolve_data_dir).  A command     *)
(* with a relative path and another working directory reads or makes a     *)
(* node.key that no process uses: it prints a key that is not the node's,  *)
(* and no file of this data directory changes.                             *)
(***************************************************************************)
GetPubKey ==
  /\ program # "prover" /\ ~cli
  /\ cli' = TRUE
  /\ CreateKey
  /\ Commanded
  /\ UNCHANGED <<program, mem, at, pidFile, stopper, config, clock>>

\* Its write is finished, or cut short.
SavePubKey ==
  /\ cli
  /\ cli' = FALSE
  /\ keyFile' \in {keyFile, Cli}
  /\ UNCHANGED <<program, mem, at, pidFile, stopper, overlaps, config, clock, last>>

get_local_node_record_Same(p) ==
  /\ at[p] = "record"
  /\ GotoWith(p, "network",
              [mem[p] EXCEPT !.seq = IF Readable(config) THEN config.seq ELSE clock])
  /\ UNCHANGED <<Rest, keyFile, config, clock, last>>

get_local_node_record(p) ==
  /\ at[p] = "record"
  /\ GotoWith(p, "network",
              [mem[p] EXCEPT !.seq = IF Readable(config) THEN config.seq + 1 ELSE clock])
  /\ UNCHANGED <<Rest, keyFile, config, clock, last>>

\* Besides the nodes of the command line and of the network.
get_bootnodes_Given == {}

get_bootnodes == IF Readable(config) THEN config.peers ELSE {}

start_network(p) ==
  /\ at[p] = "network"
  /\ GotoWith(p, IF Free("p2p") THEN "run" ELSE "ended", [mem[p] EXCEPT !.dial = get_bootnodes])
  /\ UNCHANGED <<Rest, keyFile, config, clock, last>>

Serves(p) ==
  last' = [seq |-> mem[p].seq, saved |-> FALSE, peers |-> {}, key |-> mem[p].key]

\* The health endpoint: MojaveNode::run begins with it, start_leader_tasks ends with it.
spawn_health_probe(p) ==
  /\ at[p] = "run"
  /\ IF Free("health")
     THEN /\ GotoWith(p, IF program = "node" THEN "api" ELSE "serving",
                      [mem[p] EXCEPT !.health = "listening", !.dial = {}])
          /\ IF program = "node" THEN UNCHANGED last ELSE Serves(p)
     ELSE Goto(p, "ended") /\ UNCHANGED last
  /\ UNCHANGED <<Rest, keyFile, config, clock>>

\* start_api of the node and of the prover.
start_api(p) ==
  /\ at[p] = "api" \/ (at[p] = "main" /\ program = "prover")
  /\ IF Free("http")
     THEN Goto(p, "serving") /\ Serves(p)
     ELSE Goto(p, "ended") /\ UNCHANGED last
  /\ UNCHANGED <<Rest, keyFile, config, clock>>

\* A peer completes its handshake.
PeerJoins(p, peer) ==
  /\ at[p] = "serving" /\ program # "prover"
  /\ mem' = [mem EXCEPT ![p].peers = @ \cup {peer}]
  /\ UNCHANGED <<at, Rest, nodeVars>>

\* The health endpoint serves one client at a time: it waits for the request
\* (readable), answers, and ends for good if that fails.
HealthAccepts(p) ==
  /\ is_pid_running(p) /\ mem[p].health = "listening"
  /\ mem' = [mem EXCEPT ![p].health = "busy"]
  /\ UNCHANGED <<at, Rest, nodeVars>>

respond_ok(p) ==
  /\ is_pid_running(p) /\ mem[p].health = "busy"
  /\ \E outcome \in {"listening", "failed"} : mem' = [mem EXCEPT ![p].health = outcome]
  /\ UNCHANGED <<at, Rest, nodeVars>>

\* It looks at the cancellation token between two clients only.
HealthStops_Deaf(p) == FALSE

HealthStops(p) ==
  /\ at[p] \in Closing /\ mem[p].health = "listening"
  /\ mem' = [mem EXCEPT ![p].health = "stopped"]
  /\ UNCHANGED <<at, Rest, nodeVars>>

\* select! in MojaveNode::run: the node ends with its health endpoint.
HealthEnds(p) ==
  /\ at[p] = "serving" /\ program = "node" /\ mem[p].health = "failed"
  /\ Goto(p, "ended")
  /\ UNCHANGED <<Rest, nodeVars>>

\* The signal was noticed.  The sequencer stops its tasks (stop_leader_tasks),
\* which fails if one has panicked; the other two go on at once.
Close(p) ==
  /\ at[p] = "cancelled"
  /\ CASE program = "node" -> Goto(p, "storing")
       [] program = "sequencer" -> \E there \in {"waiting", "ended"} : Goto(p, there)
       [] program = "prover" -> Goto(p, "ended")
  /\ UNCHANGED <<Rest, nodeVars>>

\* health.await?? at the end of stop_leader_tasks.
AwaitHealth(p) ==
  /\ at[p] = "waiting" /\ mem[p].health \in {"stopped", "failed"}
  /\ Goto(p, IF mem[p].health = "stopped" THEN "storing" ELSE "ended")
  /\ UNCHANGED <<Rest, nodeVars>>

Stored == IF program = "node" THEN "draining" ELSE "ended"

\* store_node_config_file: an error is only logged.
CreateConfig(p) ==
  /\ at[p] = "storing"
  /\ \/ Goto(p, "saving") /\ config' = Partial
     \/ Goto(p, Stored) /\ UNCHANGED config
  /\ UNCHANGED <<Rest, keyFile, clock, last>>

WriteConfig(p) ==
  /\ at[p] = "saving"
  /\ Goto(p, Stored)
  /\ \/ UNCHANGED <<config, last>>
     \/ /\ config' = [seq |-> mem[p].seq, peers |-> mem[p].peers]
        /\ last' = [last EXCEPT !.saved = TRUE, !.peers = mem[p].peers]
  /\ UNCHANGED <<Rest, keyFile, clock>>

\* The API has finished its requests, or ten seconds have passed.
Drained(p) ==
  /\ at[p] = "draining"
  /\ Goto(p, "ended")
  /\ UNCHANGED <<Rest, nodeVars>>

Shutdown(p) ==
  HealthStops(p) \/ Close(p) \/ AwaitHealth(p) \/ CreateConfig(p) \/ WriteConfig(p) \/ Drained(p)

Step(p) ==
  \/ DaemonStep(p) /\ UNCHANGED nodeVars
  \/ validate_node_options(p) \/ RemoveDataDir(p) \/ get_signer(p) \/ SaveKey(p)
  \/ get_local_node_record(p) \/ start_network(p) \/ spawn_health_probe(p) \/ start_api(p)
  \/ HealthEnds(p)
  \/ Shutdown(p)

Command ==
  \/ \E p \in Procs, o \in Options : Launch(p, o) /\ clock' = clock + 1
                                     /\ UNCHANGED <<keyFile, config, last>>
  \/ Stop /\ UNCHANGED nodeVars
  \/ GetPubKey

Environment(p) ==
  \/ (Signal(p) \/ Crash(p)) /\ UNCHANGED nodeVars
  \/ HealthAccepts(p) \/ respond_ok(p)
  \/ \E peer \in Peers : PeerJoins(p, peer)

Next ==
  \/ Command
  \/ StopReturns /\ UNCHANGED nodeVars
  \/ SavePubKey
  \/ \E p \in Procs : Step(p) \/ Environment(p)

\* The steps of a shutdown wait for nobody; nothing makes a client of the health
\* endpoint send.
Spec == Init /\ [][Next]_vars /\ \A p \in Procs : WF_vars(Shutdown(p))
-----------------------------------------------------------------------------
\* As long as commands are given one at a time, the PID file names the daemon
\* that serves, so that stop can reach it and a second start is refused.  A
\* daemon started with --force is the exception: it removes its own PID file.
PidFileNamesDaemon ==
  \A p \in Procs :
    Calm /\ at[p] = "serving" /\ ~mem[p].opts.no_daemon /\ ~mem[p].opts.force => read_pid_from_file = p

\* As long as commands are given one at a time, the identity of the node outlives its
\* processes, whatever crashed in between: node.key holds the key of the latest process
\* that served, and a process that has been through get_signer has it too.  Only --force
\* ends that, and a read of node.key that fails, in get_signer of a start or of get-pub-key.
IdentityIsOnDisk ==
  Calm /\ program # "prover" /\ last.key # None =>
    /\ keyFile = last.key
    /\ \A p \in Procs :
         at[p] \in {"record", "network", "run", "api", "serving"} => mem[p].key = last.key

\* As long as commands are given one at a time, the sequence number of the node
\* record never goes back from one serving process to the next, and grows if
\* the former saved its config: get_local_node_record after
\* store_node_config_file, a truncated or missing file included.
RecordIsNewer ==
  [][\A p \in Procs :
       Calm /\ program # "prover" /\ at[p] # "serving" /\ at'[p] = "serving"
         => mem[p].seq >= last.seq /\ (last.saved => mem[p].seq > last.seq)]_vars

\* As long as commands are given one at a time, the peers that a process saved
\* when it ended are dialled by the next one (get_bootnodes), whatever failed
\* attempts to start lie between them; only --force forgets them.
PeersAreRemembered ==
  \A p \in Procs : Calm /\ at[p] = "run" /\ last.saved => last.peers \subseteq mem[p].dial

\* A process told to end does so by itself, and only the client of its health
\* endpoint that sends nothing can hold that up (respond_ok waits for it).
ShutdownEnds ==
  \A p \in Procs : at[p] \in Closing ~> at[p] = "ended" \/ mem[p].health = "busy"

=============================================================================
