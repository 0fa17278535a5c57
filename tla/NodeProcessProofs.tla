-------------------------- MODULE NodeProcessProofs --------------------------
(***************************************************************************)
(* Proofs about the processes on one data directory, for any number of     *)
(* starts, stops, signals and crashes: types, how the processes take turns *)
(* as long as commands are given one at a time, and what the PID file then *)
(* says of the daemon that serves.                                         *)
(***************************************************************************)
EXTENDS NodeProcess, TLAPS

Starting ==
  {"validating", "starting", "unlinking", "opening", "forked", "main", "signer", "saving_key",
   "record", "network", "run", "api"}
Resting == {"idle", "ended"}
ProverPlaces ==
  Resting \cup {"starting", "unlinking", "opening", "forked", "main", "serving", "cancelled"}

\* A process that has found its ports free.
Admitted(p) == at[p] \notin Resting \cup {"validating"}

\* The prover never comes to the places of the other two.
TypeInv ==
  /\ TypeOK /\ clock \in Nat
  /\ program = "prover" => \A p \in Procs : at[p] \in ProverPlaces

Places == Starting \cup Resting \cup {"serving"} \cup Closing
Keys == Procs \cup {None, Cli}
Healths == {"off", "listening", "busy", "failed", "stopped"}
Memory == [opts : Options, key : Keys, seq : Nat, dial : SUBSET Peers, peers : SUBSET Peers,
           health : Healths]

Lasts == [seq : Nat, saved : BOOLEAN, peers : SUBSET Peers, key : Keys]

LEMMA FreshIsMemory == Fresh \in Memory /\ Fresh.seq = 0
BY DEF Fresh, Memory, Options, Keys, Healths

LEMMA TypeInvHas ==
  ASSUME TypeInv
  PROVE  /\ at \in [Procs -> Places] /\ mem \in [Procs -> Memory]
         /\ program \in Programs /\ overlaps \in Nat /\ clock \in Nat
         /\ stopper \in Procs \cup {None} /\ cli \in BOOLEAN /\ keyFile \in Keys \cup {Partial}
         /\ last \in Lasts
         /\ Readable(config) => config \in [seq : Nat, peers : SUBSET Peers]
         /\ pidFile = None \/ pidFile \in [lock : Procs, pid : Procs \cup {None}]
BY ProcessConstants
DEF TypeInv, TypeOK, Places, Starting, Resting, Closing, Keys, Healths, Memory, Lasts

\* What a step of process p leaves alone.
Frame(p) ==
  /\ \A q \in Procs : q # p => at'[q] = at[q] /\ mem'[q] = mem[q]
  /\ UNCHANGED <<program, overlaps, clock>>

LEMMA GotoMoves ==
  ASSUME TypeInv, NEW p \in Procs, NEW there \in Places, NEW m \in Memory, GotoWith(p, there, m)
  PROVE  /\ at' \in [Procs -> Places] /\ mem' \in [Procs -> Memory]
         /\ at'[p] = there /\ (there # "ended" => mem'[p] = m)
         /\ there = "ended" => mem'[p] = Fresh /\ mem'[p].seq = 0
         /\ \A q \in Procs : q # p => at'[q] = at[q] /\ mem'[q] = mem[q]
<1>1. at \in [Procs -> Places] /\ mem \in [Procs -> Memory]
  BY TypeInvHas
<1>2. /\ at' = [at EXCEPT ![p] = there]
      /\ mem' = [mem EXCEPT ![p] = IF there = "ended" THEN Fresh ELSE m]
  BY DEF GotoWith
<1> QED  BY <1>1, <1>2, FreshIsMemory

Moved(p) == Frame(p) /\ at' \in [Procs -> Places] /\ mem' \in [Procs -> Memory]

WritingPid == {"unlinking", "opening", "forked"}
AfterPid == {"main", "signer", "saving_key", "record", "network", "run", "api", "serving"}
KeyPlaces == {"record", "network", "run", "api", "serving"}
SeqPlaces == {"network", "run", "api"}
Unsaved == {"serving", "cancelled", "waiting", "storing", "saving"}

\* The steps that write the PID file, choose the key and choose the sequence number.
SignerStep(p) == get_signer(p) \/ SaveKey(p)
RecordStep(p) ==
  get_local_node_record(p) \/ start_network(p) \/ spawn_health_probe(p) \/ start_api(p)

\* Equal but for the peers and the health endpoint.
SameBut(m, n) == m.opts = n.opts /\ m.key = n.key /\ m.seq = n.seq /\ m.dial = n.dial

\* Where a process may go in one step, and what it keeps in memory.
Edge(p) ==
  /\ at'[p] \in Starting => at[p] \in Starting
  /\ at'[p] \notin Resting => at[p] \notin Resting /\ mem'[p].opts = mem[p].opts
  /\ at'[p] \in Closing => at[p] \in Closing \cup {"serving"}
  /\ at[p] = "validating" /\ at'[p] \notin {"validating", "ended"} => Free("p2p")
  /\ at'[p] = "serving" /\ at[p] # "serving" =>
       at[p] \in Starting \ {"validating"} /\ (program = "prover" => Free("http"))
  /\ program = "prover" /\ at[p] \in ProverPlaces => at'[p] \in ProverPlaces
  /\ DaemonStep(p) \/ (/\ at'[p] \in AfterPid => at[p] \in AfterPid
                       /\ at'[p] \in WritingPid => at'[p] = at[p])
  /\ SignerStep(p) \/ (/\ at'[p] \in {"saving_key"} \cup KeyPlaces => mem'[p].key = mem[p].key
                       /\ program # "prover" /\ at'[p] \in KeyPlaces => at[p] \in KeyPlaces
                       /\ at'[p] = "saving_key" => at[p] = "saving_key")
  /\ RecordStep(p) \/ (/\ mem'[p].seq \in {0, mem[p].seq}
                       /\ at'[p] \in SeqPlaces \cup Closing \cup {"serving"} =>
                            mem'[p].seq = mem[p].seq
                       /\ at'[p] \in SeqPlaces => at'[p] = at[p] /\ mem'[p].dial = mem[p].dial
                       /\ at'[p] \in Unsaved => at[p] \in Unsaved)

LEMMA DaemonStepMoves ==
  ASSUME TypeInv, NEW p \in Procs, DaemonStep(p), UNCHANGED nodeVars PROVE Moved(p) /\ Edge(p)
<1> USE DEF Goto, Places, Starting, Resting, Closing, ProverPlaces,
           AfterPid, WritingPid, KeyPlaces, SeqPlaces, Unsaved
<1>1. mem[p] \in Memory /\ at[p] \in Places
  BY TypeInvHas
<1>2. CASE Preflight(p)
  <2>1. PICK there \in {"main", "ended", "unlinking"} : GotoWith(p, there, mem[p])
    BY <1>2 DEF Preflight
  <2> QED  BY <1>1, <1>2, <2>1, GotoMoves DEF Preflight, Moved, Frame, Edge, DaemonStep, nodeVars
<1>3. CASE RemoveStale(p)
  <2>1. GotoWith(p, "opening", mem[p])
    BY <1>3 DEF RemoveStale
  <2> QED  BY <1>1, <1>3, <2>1, GotoMoves DEF RemoveStale, Moved, Frame, Edge, DaemonStep, nodeVars
<1>4. CASE OpenPidFile(p)
  <2>1. PICK there \in {"ended", "forked"} : GotoWith(p, there, mem[p])
    BY <1>4 DEF OpenPidFile
  <2> QED  BY <1>1, <1>4, <2>1, GotoMoves DEF OpenPidFile, Moved, Frame, Edge, DaemonStep, nodeVars
<1>5. CASE WritePid(p)
  <2>1. GotoWith(p, "main", mem[p])
    BY <1>5 DEF WritePid
  <2> QED  BY <1>1, <1>5, <2>1, GotoMoves DEF WritePid, Moved, Frame, Edge, DaemonStep, nodeVars
<1> QED  BY <1>2, <1>3, <1>4, <1>5 DEF DaemonStep

LEMMA StartStepMoves ==
  ASSUME TypeInv, NEW p \in Procs,
         \/ validate_node_options(p) \/ RemoveDataDir(p) \/ get_signer(p) \/ SaveKey(p)
         \/ get_local_node_record(p) \/ start_network(p) \/ spawn_health_probe(p) \/ start_api(p)
  PROVE  Moved(p) /\ Edge(p)
<1> USE DEF Goto, Places, Starting, Resting, Closing, ProverPlaces, Rest, nodeVars,
           AfterPid, WritingPid, KeyPlaces, SeqPlaces, Unsaved
<1>1. mem[p] \in Memory /\ at[p] \in Places
  BY TypeInvHas
<1>2. CASE validate_node_options(p)
  <2>1. PICK there \in {"starting", "ended"} :
          GotoWith(p, there, mem[p]) /\ (there = "starting" => Free("p2p"))
    BY <1>2 DEF validate_node_options
  <2> QED  BY <1>1, <1>2, <2>1, GotoMoves DEF validate_node_options, Moved, Frame, Edge
<1>3. CASE RemoveDataDir(p)
  <2>1. GotoWith(p, "signer", mem[p])
    BY <1>3 DEF RemoveDataDir
  <2> QED  BY <1>1, <1>3, <2>1, GotoMoves DEF RemoveDataDir, Moved, Frame, Edge
<1>4. CASE get_signer(p)
  <2>1. \E there \in {"record", "ended", "saving_key"}, k \in Keys :
          GotoWith(p, there, mem[p]) \/ GotoWith(p, there, [mem[p] EXCEPT !.key = k])
    BY <1>4, TypeInvHas, Zenon DEF get_signer, Readable, Keys
  <2>2. PICK there \in {"record", "ended", "saving_key"}, m \in Memory :
          /\ GotoWith(p, there, m)
          /\ m.opts = mem[p].opts /\ m.seq = mem[p].seq /\ m.dial = mem[p].dial
    BY <1>1, <2>1 DEF Memory
  <2> QED  BY <1>4, <2>2, GotoMoves DEF get_signer, Moved, Frame, Edge, SignerStep
<1>5. CASE SaveKey(p)
  <2>1. GotoWith(p, "record", mem[p])
    BY <1>5 DEF SaveKey
  <2> QED  BY <1>1, <1>5, <2>1, GotoMoves DEF SaveKey, Moved, Frame, Edge, SignerStep
<1>6. CASE get_local_node_record(p)
  <2> DEFINE m == [mem[p] EXCEPT !.seq = IF Readable(config) THEN config.seq + 1 ELSE clock]
  <2>1. GotoWith(p, "network", m)
    BY <1>6 DEF get_local_node_record
  <2>2. m \in Memory /\ m.opts = mem[p].opts /\ m.key = mem[p].key
    BY <1>1, TypeInvHas DEF Memory
  <2> HIDE DEF m
  <2> QED  BY <1>6, <2>1, <2>2, GotoMoves DEF get_local_node_record, Moved, Frame, Edge, RecordStep
<1>7. CASE start_network(p)
  <2> DEFINE m == [mem[p] EXCEPT !.dial = get_bootnodes]
  <2>1. PICK there \in {"run", "ended"} : GotoWith(p, there, m)
    BY <1>7 DEF start_network
  <2>2. m \in Memory /\ m.opts = mem[p].opts /\ m.key = mem[p].key /\ m.seq = mem[p].seq
    BY <1>1, TypeInvHas DEF Memory, get_bootnodes
  <2> HIDE DEF m
  <2> QED  BY <1>7, <2>1, <2>2, GotoMoves DEF start_network, Moved, Frame, Edge, RecordStep
<1>8. CASE spawn_health_probe(p)
  <2> DEFINE m == [mem[p] EXCEPT !.health = "listening", !.dial = {}]
  <2>1. m \in Memory /\ m.opts = mem[p].opts /\ m.key = mem[p].key /\ m.seq = mem[p].seq
    BY <1>1, Zenon DEF Memory, Healths
  <2>2. PICK there \in {"api", "serving", "ended"}, n \in {m, mem[p]} : GotoWith(p, there, n)
    BY <1>8 DEF spawn_health_probe
  <2>3. n \in Memory /\ n.opts = mem[p].opts /\ n.key = mem[p].key /\ n.seq = mem[p].seq
    BY <1>1, <2>1, Zenon
  <2>4. program # "prover"
    BY <1>8 DEF spawn_health_probe, TypeInv
  <2> HIDE DEF m
  <2> QED
    BY <1>8, <2>2, <2>3, <2>4, GotoMoves DEF spawn_health_probe, Moved, Frame, Edge, RecordStep
<1>9. CASE start_api(p)
  <2>1. PICK there \in {"serving", "ended"} :
          GotoWith(p, there, mem[p]) /\ (there = "serving" => Free("http"))
    BY <1>9 DEF start_api
  <2> QED  BY <1>1, <1>9, <2>1, GotoMoves DEF start_api, Moved, Frame, Edge, RecordStep
<1> QED  BY <1>2, <1>3, <1>4, <1>5, <1>6, <1>7, <1>8, <1>9

LEMMA InterruptedGoes ==
  ASSUME TypeInv, NEW p \in Procs, is_pid_running(p), Goto(p, Interrupted(p))
  PROVE  /\ at' \in [Procs -> Places] /\ mem' \in [Procs -> Memory]
         /\ at'[p] \in {"ended", "cancelled"} \/ at'[p] = at[p]
         /\ at'[p] = "cancelled" => at[p] \in {"serving", "cancelled"}
         /\ at'[p] \in Closing \cup {"ended"}
         /\ at'[p] # "ended" => mem'[p] = mem[p]
         /\ at'[p] = "ended" => mem'[p] = Fresh /\ mem'[p].seq = 0
         /\ \A q \in Procs : q # p => at'[q] = at[q] /\ mem'[q] = mem[q]
<1>1. mem[p] \in Memory /\ at[p] \in Places
  BY TypeInvHas
<1>2. /\ Interrupted(p) \in {"ended", "cancelled"} \/ Interrupted(p) = at[p]
      /\ Interrupted(p) = "cancelled" => at[p] \in {"serving", "cancelled"}
      /\ Interrupted(p) \in Closing \cup {"ended"}
  BY DEF Interrupted, Closing
<1>3. Interrupted(p) \in Places
  BY <1>2 DEF Places, Resting
<1> QED  BY <1>1, <1>2, <1>3, GotoMoves DEF Goto

LEMMA EnvironmentMoves ==
  ASSUME TypeInv, NEW p \in Procs, Environment(p) PROVE Moved(p) /\ Edge(p)
<1> USE DEF Places, Starting, Resting, Closing, ProverPlaces, nodeVars,
           AfterPid, WritingPid, KeyPlaces, SeqPlaces, Unsaved
<1>1. mem[p] \in Memory /\ at[p] \in Places /\ mem \in [Procs -> Memory] /\ at \in [Procs -> Places]
  BY TypeInvHas
<1>2. CASE Signal(p) /\ UNCHANGED nodeVars
  BY <1>1, <1>2, InterruptedGoes DEF Signal, Moved, Frame, Edge
<1>3. CASE Crash(p) /\ UNCHANGED nodeVars
  BY <1>1, <1>3, GotoMoves DEF Crash, Goto, Moved, Frame, Edge
<1>4. ASSUME HealthAccepts(p) \/ respond_ok(p) \/ \E peer \in Peers : PeerJoins(p, peer)
      PROVE  Moved(p) /\ Edge(p)
  <2>1. at' = at /\ UNCHANGED <<program, overlaps, clock>>
    BY <1>4 DEF HealthAccepts, respond_ok, PeerJoins, Rest
  <2>2. PICK m \in Memory : mem' = [mem EXCEPT ![p] = m] /\ SameBut(m, mem[p])
    BY <1>1, <1>4 DEF HealthAccepts, respond_ok, PeerJoins, Memory, Healths, SameBut
  <2> QED  BY <1>1, <2>1, <2>2 DEF Moved, Frame, Edge, SameBut
<1> QED  BY <1>2, <1>3, <1>4 DEF Environment

LEMMA ShutdownMoves ==
  ASSUME TypeInv, NEW p \in Procs, HealthEnds(p) \/ Shutdown(p) PROVE Moved(p) /\ Edge(p)
<1> USE DEF Goto, Places, Starting, Resting, Closing, ProverPlaces, Rest, nodeVars,
           AfterPid, WritingPid, KeyPlaces, SeqPlaces, Unsaved
<1>1. mem[p] \in Memory /\ at[p] \in Places /\ mem \in [Procs -> Memory] /\ at \in [Procs -> Places]
  BY TypeInvHas
<1>2. program = "prover" => at[p] \in ProverPlaces
  BY DEF TypeInv
<1>3. CASE HealthStops(p)
  <2> DEFINE m == [mem[p] EXCEPT !.health = "stopped"]
  <2>1. m \in Memory /\ SameBut(m, mem[p]) /\ mem' = [mem EXCEPT ![p] = m]
    BY <1>1, <1>3 DEF HealthStops, Memory, Healths, SameBut
  <2> HIDE DEF m
  <2> QED  BY <1>1, <1>3, <2>1 DEF HealthStops, Moved, Frame, Edge, SameBut
<1>4. CASE Close(p)
  <2>1. PICK there \in {"storing", "waiting", "ended"} :
          GotoWith(p, there, mem[p]) /\ (program = "prover" => there = "ended")
    BY <1>4, TypeInvHas, Zenon DEF Close, Programs
  <2> QED  BY <1>1, <1>4, <2>1, GotoMoves DEF Close, Moved, Frame, Edge
<1>5. CASE HealthEnds(p)
  BY <1>1, <1>5, GotoMoves DEF HealthEnds, Moved, Frame, Edge
<1>6. ASSUME AwaitHealth(p) \/ CreateConfig(p) \/ WriteConfig(p) \/ Drained(p)
      PROVE  Moved(p) /\ Edge(p)
  <2>1. PICK there \in {"storing", "saving", "draining", "ended"} :
          GotoWith(p, there, mem[p]) /\ (at[p] = "draining" => there = "ended")
    BY <1>6 DEF AwaitHealth, CreateConfig, WriteConfig, Drained, Stored
  <2>2. /\ UNCHANGED <<program, overlaps, clock>>
        /\ at[p] \in {"waiting", "storing", "saving", "draining"}
    BY <1>6 DEF AwaitHealth, CreateConfig, WriteConfig, Drained
  <2> QED  BY <1>1, <1>2, <2>1, <2>2, GotoMoves DEF Moved, Frame, Edge
<1> QED  BY <1>3, <1>4, <1>5, <1>6 DEF Shutdown

LEMMA StepMoves ==
  ASSUME TypeInv, NEW p \in Procs, Step(p) \/ Environment(p)
  PROVE  Moved(p) /\ Edge(p) /\ stopper' = stopper /\ cli' = cli
<1>1. Moved(p) /\ Edge(p)
  BY DaemonStepMoves, StartStepMoves, ShutdownMoves, EnvironmentMoves DEF Step
<1>2. stopper' = stopper /\ cli' = cli
  BY Zenon DEF Step, Environment, DaemonStep, Preflight, RemoveStale, OpenPidFile, WritePid,
         validate_node_options, RemoveDataDir, get_signer, SaveKey, get_local_node_record,
         start_network, spawn_health_probe, start_api, HealthEnds, Shutdown, HealthStops, Close,
         AwaitHealth, CreateConfig, WriteConfig, Drained, Signal, Crash, HealthAccepts,
         respond_ok, PeerJoins, Rest
<1> QED  BY <1>1, <1>2

\* The files and the clock, and with them all of TypeInv.
LEMMA TypeInvInitially == ASSUME Init PROVE TypeInv
<1>1. /\ Fresh \in Memory /\ 0 \in 0..MaxOverlaps /\ ~Readable(None)
  BY FreshIsMemory, ProcessConstants DEF Readable
<1> QED
  BY <1>1
  DEF Init, DaemonInit, TypeInv, TypeOK, Memory, Keys, Healths, ProverPlaces, Resting, Closing

\* A new key changes no more than the key that is counted on.
LEMMA CreateKeyLast ==
  ASSUME TypeInv, CreateKey
  PROVE  /\ last' \in Lasts
         /\ last'.seq = last.seq /\ last'.saved = last.saved /\ last'.peers = last.peers
         /\ last'.key \in {None, last.key} /\ (keyFile # None => last'.key = None)
<1>1. last \in Lasts /\ None \in Keys
  BY TypeInvHas DEF Keys
<1>2. \/ last' = last /\ keyFile = None
      \/ last' = [last EXCEPT !.key = None]
  BY DEF CreateKey
<1> QED  BY <1>1, <1>2 DEF Lasts

LEMMA TypedFiles ==
  ASSUME TypeInv, at' \in [Procs -> Places], mem' \in [Procs -> Memory],
         program' = program, overlaps' \in 0..MaxOverlaps, clock' \in Nat,
         pidFile' \in {pidFile, None} \/ pidFile' \in [lock : Procs, pid : Procs \cup {None}],
         stopper' \in Procs \cup {None}, cli' \in BOOLEAN, keyFile' \in Keys \cup {Partial},
         last' \in Lasts,
         config' \in {config, None, Partial} \/ config' \in [seq : Nat, peers : SUBSET Peers],
         program = "prover" => \A p \in Procs : at'[p] \in ProverPlaces
  PROVE  TypeInv'
BY DEF TypeInv, TypeOK, Places, Starting, Resting, Closing, Keys, Healths, Memory, Lasts, Readable

LEMMA TypedStep ==
  ASSUME TypeInv, NEW p \in Procs, Step(p) \/ Environment(p) PROVE TypeInv'
<1>1. /\ Frame(p) /\ at' \in [Procs -> Places] /\ mem' \in [Procs -> Memory]
      /\ stopper' = stopper /\ cli' = cli
      /\ program = "prover" => \A q \in Procs : at'[q] \in ProverPlaces
  BY StepMoves DEF Moved, Frame, Edge, TypeInv
<1>2. /\ program' = program /\ overlaps' \in 0..MaxOverlaps /\ clock' \in Nat
      /\ stopper' \in Procs \cup {None} /\ cli' \in BOOLEAN
  BY <1>1 DEF Frame, TypeInv, TypeOK
<1>3. pidFile' \in {pidFile, None} \/ pidFile' \in [lock : Procs, pid : Procs \cup {None}]
  <2>1. CASE OpenPidFile(p) \/ WritePid(p)
    BY <2>1, TypeInvHas DEF OpenPidFile, WritePid
  <2>2. CASE ~(OpenPidFile(p) \/ WritePid(p))
    BY <2>2, Zenon
    DEF Step, Environment, DaemonStep, Preflight, RemoveStale, validate_node_options,
        RemoveDataDir, get_signer, SaveKey, get_local_node_record, start_network,
        spawn_health_probe, start_api, HealthEnds, Shutdown, HealthStops, Close, AwaitHealth,
        CreateConfig, WriteConfig, Drained, Signal, Crash, HealthAccepts, respond_ok, PeerJoins,
        Rest
  <2> QED  BY <2>1, <2>2
<1>4. keyFile' \in Keys \cup {Partial}
  <2>1. CASE SaveKey(p)
    BY <2>1, TypeInvHas DEF SaveKey, Memory
  <2>2. CASE ~SaveKey(p)
    <3>1. keyFile' \in {keyFile, None, Partial}
      BY <2>2, Zenon
      DEF Step, Environment, validate_node_options, RemoveDataDir, get_signer, CreateKey,
          get_local_node_record, start_network, spawn_health_probe, start_api, HealthEnds, Shutdown,
          HealthStops, Close, AwaitHealth, CreateConfig, WriteConfig, Drained, HealthAccepts,
          respond_ok, PeerJoins, nodeVars
    <3> QED  BY <3>1, TypeInvHas DEF Keys
  <2> QED  BY <2>1, <2>2
<1>5. /\ last' \in Lasts
      /\ config' \in {config, None, Partial} \/ config' \in [seq : Nat, peers : SUBSET Peers]
  <2>1. /\ mem[p] \in Memory
        /\ last \in Lasts
    BY TypeInvHas
  <2> DEFINE forgotten == [last EXCEPT !.saved = FALSE, !.key = None]
             stored == [last EXCEPT !.saved = TRUE, !.peers = mem[p].peers]
             serves == [seq |-> mem[p].seq, saved |-> FALSE, peers |-> {}, key |-> mem[p].key]
             file == [seq |-> mem[p].seq, peers |-> mem[p].peers]
  <2>2. /\ forgotten \in Lasts /\ stored \in Lasts /\ serves \in Lasts
        /\ file \in [seq : Nat, peers : SUBSET Peers]
    BY <2>1, Zenon DEF Memory, Lasts, Keys
  <2>3. CASE RemoveDataDir(p) \/ WriteConfig(p)
    <3>1. last' \in {last, forgotten, stored} /\ config' \in {config, None, file}
      BY <2>3 DEF RemoveDataDir, WriteConfig
    <3> HIDE DEF forgotten, stored, file
    <3> QED  BY <2>1, <2>2, <3>1
  <2>4. CASE spawn_health_probe(p) \/ start_api(p)
    <3>1. last' \in {last, serves} /\ config' = config
      BY <2>4 DEF spawn_health_probe, start_api, Serves
    <3> HIDE DEF serves
    <3> QED  BY <2>1, <2>2, <3>1
  <2>5. CASE get_signer(p)
    BY <2>1, <2>5, CreateKeyLast DEF get_signer
  <2>6. CASE ~(RemoveDataDir(p) \/ WriteConfig(p) \/ spawn_health_probe(p) \/ start_api(p)
               \/ get_signer(p))
    <3>1. last' = last /\ config' \in {config, None, Partial}
      BY <2>6, Zenon
      DEF Step, Environment, validate_node_options, SaveKey, get_local_node_record,
          start_network, HealthEnds, Shutdown, HealthStops, Close, AwaitHealth, CreateConfig,
          Drained, HealthAccepts, respond_ok, PeerJoins, nodeVars
    <3> QED  BY <3>1, <2>1
  <2> QED  BY <2>3, <2>4, <2>5, <2>6
<1> QED  BY <1>1, <1>2, <1>3, <1>4, <1>5, TypedFiles

LEMMA CommandedOnce ==
  ASSUME TypeInv, Commanded PROVE overlaps' \in 0..MaxOverlaps /\ (Calm' => Calm /\ Settled)
BY ProcessConstants DEF TypeInv, TypeOK, Commanded, Calm

LEMMA LaunchMoves ==
  ASSUME TypeInv, NEW p \in Procs, NEW o \in Options, Launch(p, o)
  PROVE  /\ at' \in [Procs -> Places] /\ mem' \in [Procs -> Memory]
         /\ at[p] = "idle"
         /\ at'[p] = IF program = "prover" THEN "starting" ELSE "validating"
         /\ mem'[p].seq = 0
         /\ \A q \in Procs : q # p => at'[q] = at[q] /\ mem'[q] = mem[q]
         /\ Commanded /\ UNCHANGED <<program, pidFile, stopper, cli>>
<1> DEFINE m == [Fresh EXCEPT !.opts = o]
<1>1. m \in Memory /\ m.seq = 0
  BY FreshIsMemory DEF Memory
<1>2. PICK there \in {"validating", "starting"} :
        GotoWith(p, there, m) /\ there = IF program = "prover" THEN "starting" ELSE "validating"
  BY DEF Launch, NodeMain, SequencerMain, ProverMain, Begin
<1>3. at[p] = "idle" /\ Commanded /\ UNCHANGED <<program, pidFile, stopper, cli>>
  BY DEF Launch, NodeMain, SequencerMain, ProverMain, Begin
<1> HIDE DEF m
<1> QED  BY <1>1, <1>2, <1>3, GotoMoves DEF Places, Starting

\* The PID in the file is a process, and so is the one that a stop command waits for.
LEMMA StopMoves ==
  ASSUME TypeInv, Stop
  PROVE  \E p \in Procs :
           /\ p = read_pid_from_file /\ is_pid_running(p) /\ Goto(p, Interrupted(p))
           /\ stopper' = p /\ Commanded /\ UNCHANGED <<program, cli, pidFile>>
<1>1. read_pid_from_file \in Procs \cup {None}
  BY TypeInvHas DEF read_pid_from_file
<1> QED  BY <1>1 DEF Stop, is_pid_running

LEMMA StopReturnsMoves ==
  ASSUME TypeInv, StopReturns
  PROVE  /\ at' \in [Procs -> Places] /\ mem' \in [Procs -> Memory]
         /\ stopper \in Procs /\ stopper' = None /\ cli' = cli
         /\ at'[stopper] = "ended" /\ mem'[stopper] = Fresh
         /\ \A q \in Procs : q # stopper => at'[q] = at[q] /\ mem'[q] = mem[q]
<1>1. stopper \in Procs
  BY TypeInvHas DEF StopReturns
<1>2. mem[stopper] \in Memory /\ "ended" \in Places
  BY <1>1, TypeInvHas DEF Places, Resting
<1> QED  BY <1>1, <1>2, GotoMoves DEF StopReturns, Goto

LEMMA TypedCommand ==
  ASSUME TypeInv, Command \/ (StopReturns /\ UNCHANGED nodeVars) \/ SavePubKey PROVE TypeInv'
<1>1. /\ at \in [Procs -> Places] /\ mem \in [Procs -> Memory]
      /\ overlaps \in 0..MaxOverlaps /\ clock \in Nat
      /\ stopper \in Procs \cup {None} /\ cli \in BOOLEAN /\ keyFile \in Keys \cup {Partial}
      /\ last \in Lasts
      /\ program = "prover" => \A p \in Procs : at[p] \in ProverPlaces
  BY TypeInvHas DEF TypeInv, TypeOK
<1>2. ASSUME NEW p \in Procs, NEW o \in Options, Launch(p, o), clock' = clock + 1,
             UNCHANGED <<keyFile, config, last>>
      PROVE  TypeInv'
  <2>1. program = "prover" => \A q \in Procs : at'[q] \in ProverPlaces
    BY <1>1, <1>2, LaunchMoves DEF ProverPlaces
  <2>2. /\ at' \in [Procs -> Places] /\ mem' \in [Procs -> Memory]
        /\ overlaps' \in 0..MaxOverlaps /\ UNCHANGED <<program, pidFile, stopper, cli>>
    BY <1>2, LaunchMoves, CommandedOnce
  <2> QED  BY <1>1, <1>2, <2>1, <2>2, TypedFiles
<1>3. CASE Stop /\ UNCHANGED nodeVars
  <2>1. PICK p \in Procs :
          /\ is_pid_running(p) /\ Goto(p, Interrupted(p))
          /\ stopper' = p /\ Commanded /\ UNCHANGED <<program, cli, pidFile>>
    BY <1>3, StopMoves
  <2>2. /\ at' \in [Procs -> Places] /\ mem' \in [Procs -> Memory]
        /\ overlaps' \in 0..MaxOverlaps
    BY <2>1, InterruptedGoes, CommandedOnce
  <2>3. program = "prover" => \A q \in Procs : at'[q] \in ProverPlaces
    BY <1>1, <2>1, InterruptedGoes DEF ProverPlaces, Resting
  <2> QED  BY <1>1, <1>3, <2>1, <2>2, <2>3, TypedFiles DEF nodeVars
<1>4. CASE GetPubKey
  <2>1. /\ keyFile' = Partial /\ cli' = TRUE /\ overlaps' \in 0..MaxOverlaps /\ last' \in Lasts
        /\ UNCHANGED <<program, mem, at, pidFile, stopper, config, clock>>
    BY <1>4, CommandedOnce, CreateKeyLast DEF GetPubKey, CreateKey
  <2> QED  BY <1>1, <2>1, TypedFiles
<1>5. CASE StopReturns /\ UNCHANGED nodeVars
  <2>1. /\ pidFile' = None /\ UNCHANGED <<program, overlaps, nodeVars>>
    BY <1>5 DEF StopReturns
  <2>2. program = "prover" => \A q \in Procs : at'[q] \in ProverPlaces
    BY <1>1, <1>5, StopReturnsMoves DEF ProverPlaces, Resting
  <2> QED  BY <1>1, <1>5, <2>1, <2>2, StopReturnsMoves, TypedFiles DEF nodeVars
<1>6. CASE SavePubKey
  <2>1. /\ keyFile' \in Keys \cup {Partial} /\ cli' = FALSE
        /\ UNCHANGED <<program, mem, at, pidFile, stopper, overlaps, config, clock, last>>
    BY <1>1, <1>6 DEF SavePubKey, Keys
  <2> QED  BY <1>1, <2>1, TypedFiles
<1> QED  BY <1>2, <1>3, <1>4, <1>5, <1>6 DEF Command

LEMMA TypeInvIsKept == ASSUME TypeInv, [Next]_vars PROVE TypeInv'
<1>1. CASE UNCHANGED vars
  BY <1>1 DEF vars, daemonVars, nodeVars, TypeInv, TypeOK, Readable
<1>2. CASE Next
  BY <1>2, TypedCommand, TypedStep DEF Next
<1> QED  BY <1>1, <1>2

-----------------------------------------------------------------------------
(* Commands given one at a time *)

\* One process starts, one serves, and of the node and the sequencer only one is past
\* the check of the ports; a stop command has left nobody serving, and nobody starts while
\* a get-pub-key command writes its key.
TurnInv ==
  /\ \A p, q \in Procs : at[p] \in Starting /\ at[q] \in Starting => p = q
  /\ \A p, q \in Procs : at[p] = "serving" /\ at[q] = "serving" => p = q
  /\ program # "prover" => \A p, q \in Procs : Admitted(p) /\ Admitted(q) => p = q
  /\ stopper # None => \A p \in Procs : at[p] \in Resting \cup Closing
  /\ cli => \A p \in Procs : at[p] \notin Starting

\* p was started as a daemon that keeps its data directory.
Kept(p) == ~mem[p].opts.no_daemon /\ ~mem[p].opts.force

\* A daemon has written its PID and nobody else has; while one removes and writes the file
\* no daemon serves.
PidInv ==
  \A p \in Procs :
    /\ at[p] = "opening" => pidFile = None
    /\ at[p] = "forked" => pidFile # None /\ pidFile.lock = p
    /\ at[p] \in AfterPid /\ Kept(p) => read_pid_from_file = p
    /\ at[p] \in {"unlinking", "opening", "forked"} =>
         \A q \in Procs : at[q] = "serving" => ~Kept(q)

CalmInv == Calm => TurnInv /\ PidInv

LEMMA TurnInvStep ==
  ASSUME TypeInv, TurnInv, NEW p \in Procs, Step(p) \/ Environment(p) PROVE TurnInv'
<1>1. Moved(p) /\ Edge(p) /\ stopper' = stopper /\ cli' = cli
  BY StepMoves
<1>2. at' \in [Procs -> Places] /\ at \in [Procs -> Places] /\ program' = program
  BY <1>1, TypeInvHas DEF Moved, Frame
<1>3. \A q \in Procs : q # p => at'[q] = at[q]
  BY <1>1 DEF Moved, Frame
<1>4. (\A q, r \in Procs : at[q] \in Starting /\ at[r] \in Starting => q = r)'
  BY <1>1, <1>3 DEF TurnInv, Edge
<1>5. (program # "prover" => \A q, r \in Procs : Admitted(q) /\ Admitted(r) => q = r)'
  <2>1. ASSUME program # "prover", NEW q \in Procs, Admitted(q)', q # p, Admitted(p)'
        PROVE  FALSE
    <3>1. Admitted(q)
      BY <1>3, <2>1 DEF Admitted
    <3>2. at[p] \notin Resting /\ ~Admitted(p)
      BY <1>1, <2>1, <3>1 DEF TurnInv, Edge, Admitted
    <3>3. at[p] = "validating" /\ Free("p2p")
      BY <1>1, <2>1, <3>2 DEF Admitted, Edge, Resting
    <3>4. at[q] \in Starting
      BY <1>2, <3>1, <3>3 DEF Free, Binds, Places, Admitted, Closing
    <3> QED  BY <2>1, <3>3, <3>4 DEF TurnInv, Starting
  <2>2. \A q \in Procs : q # p => (Admitted(q)' <=> Admitted(q))
    BY <1>3 DEF Admitted
  <2> QED  BY <1>2, <2>1, <2>2 DEF TurnInv
<1>6. (\A q, r \in Procs : at[q] = "serving" /\ at[r] = "serving" => q = r)'
  <2>1. CASE program = "prover"
    <3>1. at'[p] = "serving" /\ at[p] # "serving" => \A q \in Procs : at[q] # "serving"
      BY <1>1, <2>1 DEF Edge, Free, Binds
    <3> QED  BY <1>3, <3>1 DEF TurnInv
  <2>2. CASE program # "prover"
    BY <1>2, <1>5, <2>2 DEF Admitted, Resting
  <2> QED  BY <2>1, <2>2
<1>7. (stopper # None => \A q \in Procs : at[q] \in Resting \cup Closing)'
  BY <1>1, <1>2, <1>3 DEF TurnInv, Edge, Places, Starting, Resting, Closing
<1>8. (cli => \A q \in Procs : at[q] \notin Starting)'
  BY <1>1, <1>3 DEF TurnInv, Edge
<1> QED  BY <1>4, <1>5, <1>6, <1>7, <1>8 DEF TurnInv

LEMMA TurnInvIsKept == ASSUME TypeInv, CalmInv, Next, Calm' PROVE Calm /\ TurnInv /\ TurnInv'
<1>1. ASSUME NEW p \in Procs, Step(p) \/ Environment(p) PROVE Calm /\ TurnInv /\ TurnInv'
  <2>1. overlaps' = overlaps
    BY <1>1, StepMoves DEF Moved, Frame
  <2> QED  BY <1>1, <2>1, TurnInvStep DEF Calm, CalmInv
<1>2. ASSUME NEW p \in Procs, NEW o \in Options, Launch(p, o) PROVE Calm /\ TurnInv /\ TurnInv'
  <2>1. Calm /\ Settled /\ TurnInv
    BY <1>2, LaunchMoves, CommandedOnce DEF CalmInv
  <2> QED  BY <1>2, <2>1, LaunchMoves DEF Settled, TurnInv, Admitted, Starting, Resting
<1>3. CASE Stop
  <2>1. PICK p \in Procs :
          is_pid_running(p) /\ Goto(p, Interrupted(p)) /\ Commanded /\ UNCHANGED <<program, cli>>
    BY <1>3, StopMoves
  <2>2. Calm /\ Settled /\ TurnInv
    BY <2>1, CommandedOnce DEF CalmInv
  <2>3. at[p] = "serving" /\ at'[p] \in Closing \cup {"ended"}
    BY <2>1, <2>2, InterruptedGoes DEF Settled, is_pid_running
  <2>4. \A q \in Procs : q # p => at'[q] = at[q] /\ at[q] \in Resting
    BY <2>1, <2>2, <2>3, InterruptedGoes DEF Settled, TurnInv, Resting
  <2> QED  BY <2>1, <2>2, <2>3, <2>4 DEF TurnInv, Admitted, Starting, Resting, Closing
<1>4. CASE GetPubKey
  <2>1. UNCHANGED <<at, stopper, program>> /\ Calm /\ TurnInv /\ Settled
    BY <1>4, CommandedOnce DEF GetPubKey, CalmInv
  <2> QED  BY <2>1 DEF TurnInv, Admitted, Settled, Starting
<1>5. CASE StopReturns
  <2>1. Calm /\ TurnInv /\ program' = program
    BY <1>5 DEF StopReturns, Calm, CalmInv
  <2> QED  BY <1>5, <2>1, StopReturnsMoves DEF TurnInv, Admitted, Starting, Resting
<1>6. CASE SavePubKey
  BY <1>6 DEF SavePubKey, Calm, CalmInv, TurnInv, Admitted
<1> QED  BY <1>1, <1>2, <1>3, <1>4, <1>5, <1>6 DEF Next, Command

Others(p) == \A q \in Procs : q # p => at'[q] = at[q] /\ mem'[q] = mem[q]

\* Steps that have nothing to do with the PID file.
PidQuiet(p) ==
  /\ Others(p) /\ pidFile' = pidFile
  /\ at'[p] \in AfterPid => at[p] \in AfterPid /\ mem'[p].opts = mem[p].opts
  /\ at'[p] \in WritingPid => at'[p] = at[p]

LEMMA PidInvQuiet == ASSUME TurnInv, PidInv, NEW p \in Procs, PidQuiet(p) PROVE PidInv'
<1>1. read_pid_from_file' = read_pid_from_file
  BY DEF PidQuiet, read_pid_from_file
<1>2. ASSUME NEW q \in Procs
      PROVE  /\ at'[q] = "opening" => pidFile' = None
             /\ at'[q] = "forked" => pidFile' # None /\ pidFile'.lock = q
             /\ at'[q] \in AfterPid /\ Kept(q)' => read_pid_from_file' = q
  BY <1>1 DEF PidInv, PidQuiet, Others, Kept, WritingPid
<1>3. ASSUME NEW q \in Procs, NEW r \in Procs, at'[q] \in WritingPid, at'[r] = "serving"
      PROVE  ~Kept(r)'
  <2>1. at[q] \in WritingPid
    BY <1>3 DEF PidQuiet, Others
  <2>2. at[r] \in AfterPid /\ (Kept(r)' <=> Kept(r))
    BY <1>3 DEF PidQuiet, Others, AfterPid, Kept
  <2>3. CASE at[r] = "serving"
    BY <2>1, <2>2, <2>3 DEF PidInv, WritingPid
  <2>4. CASE at[r] # "serving"
    BY <1>3, <2>1, <2>2, <2>4 DEF TurnInv, AfterPid, WritingPid, Starting
  <2> QED  BY <2>3, <2>4
<1> QED  BY <1>2, <1>3 DEF PidInv, WritingPid

LEMMA PidInvDaemon ==
  ASSUME TypeInv, TurnInv, PidInv, NEW p \in Procs, DaemonStep(p), Step(p) \/ Environment(p)
  PROVE  PidInv'
<1>1. /\ Others(p) /\ mem[p] \in Memory
      /\ {"main", "ended", "unlinking", "opening", "forked"} \subseteq Places
  BY StepMoves, TypeInvHas DEF Moved, Frame, Others, Places, Starting, Resting
<1>2. \A q \in Procs : q # p => (Kept(q)' <=> Kept(q))
  BY <1>1 DEF Others, Kept
<1>3. at[p] \in Starting /\ \A q \in Procs : q # p => at[q] \notin Starting
  BY DEF DaemonStep, Preflight, RemoveStale, OpenPidFile, WritePid, Starting, TurnInv
<1> USE DEF Goto, WritingPid, AfterPid, Starting
<1>4. CASE Preflight(p)
  <2>1. pidFile' = pidFile
    BY <1>4 DEF Preflight
  <2>2. CASE mem[p].opts.no_daemon
    <3>1. at'[p] = "main" /\ mem'[p] = mem[p]
      BY <1>1, <1>4, <2>2, GotoMoves DEF Preflight
    <3> QED  BY <1>1, <1>2, <1>3, <2>1, <2>2, <3>1 DEF PidInv, Kept, read_pid_from_file, Others
  <2>3. CASE ~mem[p].opts.no_daemon /\ is_pid_running(read_pid_from_file)
    <3>1. at'[p] = "ended"
      BY <1>1, <1>4, <2>3, GotoMoves DEF Preflight
    <3> QED  BY <1>1, <2>1, <3>1, PidInvQuiet DEF PidQuiet
  <2>4. CASE ~mem[p].opts.no_daemon /\ ~is_pid_running(read_pid_from_file)
    <3>1. at'[p] = "unlinking"
      BY <1>1, <1>4, <2>4, GotoMoves DEF Preflight
    <3>2. \A q \in Procs : at[q] = "serving" => ~Kept(q)
      BY <2>4, ProcessConstants DEF PidInv, is_pid_running
    <3> QED  BY <1>1, <1>2, <1>3, <2>1, <3>1, <3>2 DEF PidInv, read_pid_from_file, Others
  <2> QED  BY <2>2, <2>3, <2>4
<1>5. CASE RemoveStale(p)
  <2>1. at[p] = "unlinking" /\ at'[p] = "opening" /\ pidFile' = None
    BY <1>1, <1>5, GotoMoves DEF RemoveStale
  <2> QED  BY <1>1, <1>2, <1>3, <2>1 DEF PidInv, Others
<1>6. CASE OpenPidFile(p)
  <2>1. at[p] = "opening" /\ pidFile = None
    BY <1>6 DEF OpenPidFile, PidInv
  <2>2. at'[p] = "forked" /\ pidFile' = [lock |-> p, pid |-> None]
    BY <1>1, <1>6, <2>1, GotoMoves DEF OpenPidFile
  <2>3. pidFile' # None /\ pidFile'.lock = p
    BY <2>2, ProcessConstants
  <2> QED  BY <1>1, <1>2, <1>3, <2>1, <2>2, <2>3 DEF PidInv, Others
<1>7. CASE WritePid(p)
  <2>1. at[p] = "forked" /\ pidFile # None /\ pidFile.lock = p
    BY <1>7 DEF WritePid, PidInv
  <2>2. pidFile \in [lock : Procs, pid : Procs \cup {None}]
    BY <2>1, TypeInvHas
  <2>3. at'[p] = "main" /\ pidFile' = [pidFile EXCEPT !.pid = p]
    BY <1>1, <1>7, <2>1, GotoMoves DEF WritePid
  <2>4. read_pid_from_file' = p
    BY <2>2, <2>3, ProcessConstants DEF read_pid_from_file
  <2> QED  BY <1>1, <1>2, <1>3, <2>1, <2>3, <2>4 DEF PidInv, Others
<1> QED  BY <1>4, <1>5, <1>6, <1>7 DEF DaemonStep

LEMMA PidInvIsKept ==
  ASSUME TypeInv, TurnInv, PidInv, Next, Calm' PROVE PidInv'
<1>1. ASSUME NEW p \in Procs, Step(p) \/ Environment(p), DaemonStep(p) PROVE PidInv'
  BY <1>1, PidInvDaemon
<1>2. ASSUME NEW p \in Procs, RemoveDataDir(p) PROVE PidInv'
  <2>1. Moved(p) /\ Edge(p) /\ Others(p) /\ at[p] = "main" /\ program # "prover"
    BY <1>2, StepMoves DEF Step, Moved, Frame, Others, RemoveDataDir
  <2>2. at'[p] = "signer" /\ mem'[p] = mem[p]
    <3>1. GotoWith(p, "signer", mem[p])
      BY <1>2 DEF RemoveDataDir, Goto
    <3>2. mem[p] \in Memory /\ "signer" \in Places
      BY TypeInvHas DEF Places, Starting
    <3> QED  BY <3>1, <3>2, GotoMoves
  <2>3. CASE mem[p].opts.force
    <3>1. pidFile' = None
      BY <1>2, <2>3 DEF RemoveDataDir
    <3>2. \A q \in Procs : q # p => at[q] \notin AfterPid \cup WritingPid
      BY <2>1 DEF TurnInv, Admitted, AfterPid, WritingPid, Starting, Resting
    <3> QED  BY <2>1, <2>2, <2>3, <3>1, <3>2 DEF PidInv, Kept, Others, AfterPid, WritingPid
  <2>4. CASE ~mem[p].opts.force
    <3>1. pidFile' = pidFile
      BY <1>2, <2>4 DEF RemoveDataDir
    <3> QED  BY <2>1, <2>2, <3>1, PidInvQuiet DEF PidQuiet, AfterPid, WritingPid
  <2> QED  BY <2>3, <2>4
<1>3. ASSUME NEW p \in Procs, Step(p) \/ Environment(p),
             ~DaemonStep(p), ~RemoveDataDir(p)
      PROVE  PidInv'
  <2>1. pidFile' = pidFile
    BY <1>3, ZenonT(30)
    DEF Step, Environment, validate_node_options, get_signer, SaveKey, get_local_node_record,
        start_network, spawn_health_probe, start_api, HealthEnds, Shutdown, HealthStops, Close,
        AwaitHealth, CreateConfig, WriteConfig, Drained, Signal, Crash, HealthAccepts, respond_ok,
        PeerJoins, Rest
  <2>2. PidQuiet(p)
    BY <1>3, <2>1, StepMoves DEF Moved, Frame, Edge, PidQuiet, Others, AfterPid, Resting
  <2> QED  BY <2>2, PidInvQuiet
<1>4. ASSUME NEW p \in Procs, NEW o \in Options, Launch(p, o) PROVE PidInv'
  <2>1. PidQuiet(p)
    BY <1>4, LaunchMoves DEF PidQuiet, Others, AfterPid, WritingPid
  <2> QED  BY <2>1, PidInvQuiet
<1>5. CASE Stop
  <2>1. PICK p \in Procs : is_pid_running(p) /\ Goto(p, Interrupted(p)) /\ UNCHANGED pidFile
    BY <1>5, StopMoves
  <2>2. PidQuiet(p)
    BY <2>1, InterruptedGoes DEF PidQuiet, Others, AfterPid, WritingPid, Closing
  <2> QED  BY <2>2, PidInvQuiet
<1>6. CASE GetPubKey \/ SavePubKey
  BY <1>6 DEF GetPubKey, SavePubKey, PidInv, read_pid_from_file, Kept
<1>7. CASE StopReturns
  <2>1. \A q \in Procs : at'[q] \in Resting \cup Closing
    BY <1>7, StopReturnsMoves DEF StopReturns, TurnInv, Resting
  <2> QED  BY <2>1 DEF PidInv, Resting, Closing, AfterPid
<1> QED  BY <1>1, <1>2, <1>3, <1>4, <1>5, <1>6, <1>7 DEF Next, Command, Step

-----------------------------------------------------------------------------
LEMMA CalmInvInitially == ASSUME Init PROVE CalmInv
<1>1. stopper = None /\ ~cli /\ \A p \in Procs : at[p] = "idle"
  BY DEF Init, DaemonInit
<1>2. TurnInv
  BY <1>1 DEF TurnInv, Admitted, Starting, Resting
<1>3. PidInv
  BY <1>1 DEF PidInv, AfterPid
<1> QED  BY <1>2, <1>3 DEF CalmInv

LEMMA CalmInvIsKept == ASSUME TypeInv, CalmInv, [Next]_vars PROVE CalmInv'
<1>1. CASE UNCHANGED vars
  BY <1>1
  DEF vars, daemonVars, nodeVars, CalmInv, Calm, TurnInv, Admitted, PidInv, read_pid_from_file,
      Kept
<1>2. ASSUME Next, Calm' PROVE (TurnInv /\ PidInv)'
  <2>1. Calm /\ TurnInv /\ TurnInv'
    BY <1>2, TurnInvIsKept
  <2>2. PidInv
    BY <2>1 DEF CalmInv
  <2> QED  BY <1>2, <2>1, <2>2, PidInvIsKept
<1> QED  BY <1>1, <1>2 DEF CalmInv

LEMMA CalmInvHolds == Spec => [](TypeInv /\ CalmInv)
BY TypeInvInitially, TypeInvIsKept, CalmInvInitially, CalmInvIsKept, PTL DEF Spec

\* Every process, file and counter stays within its type, whatever commands overlap.
THEOREM ProcessesTypeCorrect == Spec => []TypeOK
<1>1. TypeInv => TypeOK
  BY DEF TypeInv
<1> QED  BY <1>1, CalmInvHolds, PTL

\* With commands given one at a time, the PID file names the daemon that serves, after any
\* number of starts, stops, signals, crashes and failed writes: stop_daemonized reaches it.
THEOREM PidFileAlwaysNamesDaemon == Spec => []PidFileNamesDaemon
<1>1. CalmInv => PidFileNamesDaemon
  BY DEF CalmInv, PidInv, PidFileNamesDaemon, AfterPid, Kept
<1> QED  BY <1>1, CalmInvHolds, PTL
=============================================================================
